---- MODULE Spec2Model ----
(***************************************************************************)
(* Atomic Notes Visualizer: the client-side graph transformer              *)
(* (utils/graph-transformer), the JobProgressTracker poll loop and the     *)
(* App component's note-processing handlers, as state machines.            *)
(***************************************************************************)
EXTENDS Integers, Sequences, FiniteSets, TLC

(***************************************************************************)
(* Bounds of the model.                                                    *)
(***************************************************************************)
MaxRels == 2
MaxConnections == 10

(***************************************************************************)
(* JavaScript values whose dynamic type matters: a tag and a payload.      *)
(***************************************************************************)
Undefined == [t |-> "undefined", v |-> ""]
Null == [t |-> "null", v |-> ""]
Str(s) == [t |-> "string", v |-> s]
Fn(name) == [t |-> "function", v |-> name]
Obj(name) == [t |-> "object", v |-> name]

\* ToBoolean: undefined, null and the empty string are falsy; objects and
\* functions and non-empty strings are truthy.
Truthy(x) == ~(x.t \in {"undefined", "null"} \/ (x.t = "string" /\ x.v = ""))

\* a || b
Or(a, b) == IF Truthy(a) THEN a ELSE b

(***************************************************************************)
(* String(n) for an integer n: its decimal digits, with a leading minus.   *)
(***************************************************************************)
DigitChars == <<"0", "1", "2", "3", "4", "5", "6", "7", "8", "9">>

RECURSIVE NatToStr(_)
NatToStr(n) ==
  IF n < 10 THEN DigitChars[n + 1]
  ELSE NatToStr(n \div 10) \o DigitChars[(n % 10) + 1]

String(n) == IF n < 0 THEN "-" \o NatToStr(-n) ELSE NatToStr(n)

(***************************************************************************)
(* graph-transformer: getNodeColor                                         *)
(***************************************************************************)
ENTITY_TYPE_COLORS ==
  [concept |-> "#FF70A6", technology |-> "#FF9770", idea |-> "#FFD670",
   person |-> "#70E0FF", technique |-> "#A770FF", architecture |-> "#70FFB9"]

DEFAULT_COLOR == "#9CA3AF"

\* ENTITY_TYPE_COLORS is an object literal: a key it does not own is looked up
\* on Object.prototype, whose members are functions (and __proto__, an object).
ObjectPrototypeFunctions ==
  {"constructor", "toString", "toLocaleString", "valueOf", "hasOwnProperty",
   "isPrototypeOf", "propertyIsEnumerable"}

\* ENTITY_TYPE_COLORS[key]
ColorTableLookup(key) ==
  IF key \in DOMAIN ENTITY_TYPE_COLORS THEN Str(ENTITY_TYPE_COLORS[key])
  ELSE IF key \in ObjectPrototypeFunctions THEN Fn(key)
  ELSE IF key = "__proto__" THEN Obj("Object.prototype")
  ELSE Undefined

getNodeColor(entityType) == Or(ColorTableLookup(entityType), Str(DEFAULT_COLOR))

(***************************************************************************)
(* graph-transformer: calculateNodeSize                                    *)
(***************************************************************************)
MIN_SIZE == 8
MAX_SIZE == 24
SIZE_PER_CONNECTION == 2

Min(a, b) == IF a <= b THEN a ELSE b

calculateNodeSizeNoGuard(connections) ==
  Min(MIN_SIZE + (connections * SIZE_PER_CONNECTION), MAX_SIZE)

calculateNodeSize(connections) ==
  IF connections < 0 THEN MIN_SIZE
  ELSE Min(MIN_SIZE + (connections * SIZE_PER_CONNECTION), MAX_SIZE)

(***************************************************************************)
(* graph-transformer: transformAPIToGraphData                              *)
(***************************************************************************)
\* new Map<number, number>(): a function with a finite domain.
EmptyMap == [k \in {} |-> 0]

\* connectionCounts.get(k) || 0
MapGetOr0(m, k) == IF k \in DOMAIN m /\ m[k] # 0 THEN m[k] ELSE 0

\* connectionCounts.set(k, v)
MapSet(m, k, v) == [x \in (DOMAIN m) \cup {k} |-> IF x = k THEN v ELSE m[x]]

\* The body of relationships.forEach: the source's count, then the target's.
CountOne(m, rel) ==
  LET m1 == MapSet(m, rel.source_entity_id, MapGetOr0(m, rel.source_entity_id) + 1)
  IN  MapSet(m1, rel.target_entity_id, MapGetOr0(m1, rel.target_entity_id) + 1)

RECURSIVE CountConnections(_, _)
CountConnections(m, rels) ==
  IF rels = <<>> THEN m
  ELSE CountConnections(CountOne(m, Head(rels)), Tail(rels))

\* The Map a call starts from: a fresh one, whatever an earlier call left.
StaleCounts(previous) == previous

InitialCounts(previous) == EmptyMap

\* entity.color || getNodeColor(entity.entity_type)
NodeColorNullish(entity) ==
  IF entity.color.t \in {"undefined", "null"} THEN getNodeColor(entity.entity_type)
  ELSE entity.color

NodeColor(entity) == Or(entity.color, getNodeColor(entity.entity_type))

ToNode(entity, counts) ==
  [id |-> String(entity.id),
   name |-> entity.name,
   type |-> entity.entity_type,
   description |-> entity.description,
   color |-> NodeColor(entity),
   size |-> calculateNodeSize(MapGetOr0(counts, entity.id))]

ToLinkSwapped(rel) ==
  [source |-> String(rel.target_entity_id),
   target |-> String(rel.source_entity_id),
   relationshipType |-> rel.relationship_type,
   strength |-> rel.strength,
   explanation |-> rel.ai_explanation]

ToLink(rel) ==
  [source |-> String(rel.source_entity_id),
   target |-> String(rel.target_entity_id),
   relationshipType |-> rel.relationship_type,
   strength |-> rel.strength,
   explanation |-> rel.ai_explanation]

\* One call: the counts it builds, what it returns (threw = FALSE: no statement
\* of the function raises on lists of entity and relationship objects), and
\* the response object as the call leaves it (the function writes nothing to it).
transformAPIToGraphData(apiResp, previousCounts) ==
  LET counts == CountConnections(InitialCounts(previousCounts), apiResp.relationships)
  IN  [counts |-> counts,
       threw |-> FALSE,
       nodes |-> [i \in 1..Len(apiResp.entities) |-> ToNode(apiResp.entities[i], counts)],
       links |-> [i \in 1..Len(apiResp.relationships) |-> ToLink(apiResp.relationships[i])],
       response |-> apiResp]

(***************************************************************************)
(* State of the transformer calls.                                         *)
(***************************************************************************)
VARIABLES
  mode,             \* which function this run calls: "transform", "size", "color"
  apiResponse,      \* the response object handed to transformAPIToGraphData
  givenResponse,    \* its value when it was handed over
  connectionCounts, \* the Map the most recent call built
  callResults,      \* what each call of transformAPIToGraphData returned, in order
  sizeArg,          \* calculateNodeSize's argument
  sizeResult,       \* <<>> before the call, <<r>> after it returned r
  colorArg,         \* getNodeColor's argument
  colorResult       \* <<>> before the call, <<r>> after it returned r

transformVars ==
  <<mode, apiResponse, givenResponse, connectionCounts, callResults,
    sizeArg, sizeResult, colorArg, colorResult>>

\* Entity ids of a response, and the ids a relationship may name: 3 is the id
\* of no entity of the response.
EntityIds == {1, 2}
EndpointIds == {1, 2, 3}

\* What an entity carries besides its id.
EntityPayloads ==
  { [name |-> "Server-Side Rendering", entity_type |-> "concept",
     description |-> Str("Renders pages on the server"), color |-> Str("#FF70A6")],
    [name |-> "Architecture Pattern", entity_type |-> "architecture",
     description |-> Undefined, color |-> Undefined],
    [name |-> "React", entity_type |-> "technology",
     description |-> Undefined, color |-> Str("#123456")],
    [name |-> "Misc", entity_type |-> "unknown",
     description |-> Undefined, color |-> Str("")],
    [name |-> "Ctor", entity_type |-> "constructor",
     description |-> Null, color |-> Null] }

EntityPool ==
  { [id |-> i, name |-> p.name, entity_type |-> p.entity_type,
     description |-> p.description, color |-> p.color] :
    i \in EntityIds, p \in EntityPayloads }

\* One relationship per ordered pair of endpoints: a pair that does not point
\* backwards is 'related_to' with an explanation, one that does is a
\* 'prerequisite' without (strength is in tenths).
RelPool ==
  { IF s <= t
    THEN [source_entity_id |-> s, target_entity_id |-> t,
          relationship_type |-> "related_to", strength |-> 8,
          ai_explanation |-> Str("SSR is implemented using React")]
    ELSE [source_entity_id |-> s, target_entity_id |-> t,
          relationship_type |-> "prerequisite", strength |-> 5,
          ai_explanation |-> Undefined] :
    s \in EndpointIds, t \in EndpointIds }

\* Entity rows of one note: their ids are distinct (a primary key).
EntityLists ==
  UNION { { s \in [1..n -> EntityPool] :
            \A i, j \in 1..n : i # j => s[i].id # s[j].id } :
          n \in 0..Cardinality(EntityIds) }

RelLists == UNION { [1..n -> RelPool] : n \in 0..MaxRels }

Responses == [entities : EntityLists, relationships : RelLists]

EmptyResponse == [entities |-> <<>>, relationships |-> <<>>]

\* Type strings getNodeColor is called with.
TypeStrings ==
  (DOMAIN ENTITY_TYPE_COLORS) \cup ObjectPrototypeFunctions
    \cup {"unknown", "", "Concept", "__proto__"}

InitTransformer ==
  /\ connectionCounts = EmptyMap
  /\ callResults = <<>>
  /\ sizeResult = <<>>
  /\ colorResult = <<>>
  /\ \/ /\ mode = "transform"
        /\ apiResponse \in Responses
        /\ sizeArg = 0
        /\ colorArg = ""
     \/ /\ mode = "size"
        /\ apiResponse = EmptyResponse
        /\ sizeArg \in (-MaxConnections)..MaxConnections
        /\ colorArg = ""
     \/ /\ mode = "color"
        /\ apiResponse = EmptyResponse
        /\ sizeArg = 0
        /\ colorArg \in TypeStrings
  /\ givenResponse = apiResponse

\* A caller calls transformAPIToGraphData(apiResponse); twice at most.
CallTransform ==
  /\ mode = "transform"
  /\ Len(callResults) < 2
  /\ LET r == transformAPIToGraphData(apiResponse, connectionCounts)
     IN  /\ connectionCounts' = r.counts
         /\ apiResponse' = r.response
         /\ callResults' =
              Append(callResults, [threw |-> r.threw, nodes |-> r.nodes, links |-> r.links])
  /\ UNCHANGED <<mode, givenResponse, sizeArg, sizeResult, colorArg, colorResult>>

CallCalculateNodeSize ==
  /\ mode = "size"
  /\ sizeResult = <<>>
  /\ sizeResult' = <<calculateNodeSize(sizeArg)>>
  /\ UNCHANGED <<mode, apiResponse, givenResponse, connectionCounts, callResults,
                 sizeArg, colorArg, colorResult>>

CallGetNodeColor ==
  /\ mode = "color"
  /\ colorResult = <<>>
  /\ colorResult' = <<getNodeColor(colorArg)>>
  /\ UNCHANGED <<mode, apiResponse, givenResponse, connectionCounts, callResults,
                 sizeArg, sizeResult, colorArg>>

(***************************************************************************)
(* JobProgressTracker (one per id in the App's activeJobs) and the App's    *)
(* handleJobClose.  Time is counted in seconds.                            *)
(***************************************************************************)
VARIABLES
  activeJobs,       \* App state: the job ids whose tracker is rendered, newest first
  startedJobs,      \* the job ids the server has handed out
  isMounted,        \* per job: the effect's isMounted flag
  intervalActive,   \* per job: pollInterval is set and not cleared
  elapsed,          \* per job: seconds since the interval was set or last fired
  inFlight,         \* per job: status requests sent and not yet answered
  progressData,     \* per job: the tracker's progressData (NoData: null)
  trackerError,     \* per job: the tracker's error (Null or a message)
  hasCompleted,     \* per job: the hasCompleted ref
  onCompleteCalls,  \* per job: the note ids onComplete was called with, in order
  pollParity,       \* per job: flips with every status request sent
  terminalSeen,     \* per job: a poll response reported 'completed' or 'failed'
  failedPollSeen,   \* per job: a poll failed while the tracker was mounted
  sentAfterFailure, \* per job: a status request was sent after a failed poll
  droppedAfterClose \* per job: what arrived last after the tracker unmounted ("": nothing)

trackerVars ==
  <<activeJobs, startedJobs, isMounted, intervalActive, elapsed, inFlight,
    progressData, trackerError, hasCompleted, onCompleteCalls, pollParity,
    terminalSeen, failedPollSeen, sentAfterFailure, droppedAfterClose>>

\* setInterval(fetchStatus, 3000)
POLL_INTERVAL_SECONDS == 3

\* Status requests of one job that may be unanswered at once.
MaxInFlight == 2

JobIds == {"job-1"}

NoData == [status |-> "none", note_id |-> 0, message |-> ""]

\* What GET /api/youtube/status/{job_id} may answer (note_id 0, message "":
\* the field is absent).
PollAnswers ==
  { [status |-> "queued", note_id |-> 0, message |-> "Waiting"],
    [status |-> "processing", note_id |-> 0, message |-> "Extracting"],
    [status |-> "completed", note_id |-> 7, message |-> "Done"],
    [status |-> "completed", note_id |-> 0, message |-> "Done"],
    [status |-> "failed", note_id |-> 0, message |-> "Transcript unavailable"],
    [status |-> "failed", note_id |-> 0, message |-> ""] }

InitTracker ==
  /\ activeJobs = <<>>
  /\ startedJobs = {}
  /\ isMounted = [j \in JobIds |-> FALSE]
  /\ intervalActive = [j \in JobIds |-> FALSE]
  /\ elapsed = [j \in JobIds |-> 0]
  /\ inFlight = [j \in JobIds |-> 0]
  /\ progressData = [j \in JobIds |-> NoData]
  /\ trackerError = [j \in JobIds |-> Null]
  /\ hasCompleted = [j \in JobIds |-> FALSE]
  /\ onCompleteCalls = [j \in JobIds |-> <<>>]
  /\ pollParity = [j \in JobIds |-> 0]
  /\ terminalSeen = [j \in JobIds |-> FALSE]
  /\ failedPollSeen = [j \in JobIds |-> FALSE]
  /\ sentAfterFailure = [j \in JobIds |-> FALSE]
  /\ droppedAfterClose = [j \in JobIds |-> ""]

\* Array.prototype.filter(id => id !== jobId)
RECURSIVE FilterOut(_, _)
FilterOut(s, x) ==
  IF s = <<>> THEN <<>>
  ELSE IF Head(s) = x THEN FilterOut(Tail(s), x)
  ELSE <<Head(s)>> \o FilterOut(Tail(s), x)

\* fetchStatus() up to its first await: the request leaves.
SendStatusRequest(j) ==
  /\ inFlight' = [inFlight EXCEPT ![j] = @ + 1]
  /\ pollParity' = [pollParity EXCEPT ![j] = 1 - @]
  /\ sentAfterFailure' = [sentAfterFailure EXCEPT ![j] = @ \/ failedPollSeen[j]]

\* handleYouTubeProcess's request is answered with a new job id: the id is put
\* in front of activeJobs, its tracker mounts and the effect runs: the first
\* fetchStatus() and setInterval.
JobAccepted(j) ==
  /\ j \notin startedJobs
  /\ startedJobs' = startedJobs \cup {j}
  /\ activeJobs' = <<j>> \o activeJobs
  /\ isMounted' = [isMounted EXCEPT ![j] = TRUE]
  /\ SendStatusRequest(j)
  /\ intervalActive' = [intervalActive EXCEPT ![j] = TRUE]
  /\ elapsed' = [elapsed EXCEPT ![j] = 0]
  /\ UNCHANGED <<progressData, trackerError, hasCompleted, onCompleteCalls,
                 terminalSeen, failedPollSeen, droppedAfterClose>>

\* One second passes; an interval that is due fires first.
Tick ==
  /\ \E j \in JobIds : intervalActive[j]
  /\ \A j \in JobIds : intervalActive[j] => elapsed[j] < POLL_INTERVAL_SECONDS
  /\ elapsed' = [j \in JobIds |-> IF intervalActive[j] THEN elapsed[j] + 1 ELSE elapsed[j]]
  /\ UNCHANGED <<activeJobs, startedJobs, isMounted, intervalActive, inFlight,
                 progressData, trackerError, hasCompleted, onCompleteCalls, pollParity,
                 terminalSeen, failedPollSeen, sentAfterFailure, droppedAfterClose>>

\* The interval fires: fetchStatus() again.
IntervalFires(j) ==
  /\ intervalActive[j]
  /\ elapsed[j] = POLL_INTERVAL_SECONDS
  /\ inFlight[j] < MaxInFlight
  /\ SendStatusRequest(j)
  /\ elapsed' = [elapsed EXCEPT ![j] = 0]
  /\ UNCHANGED <<activeJobs, startedJobs, isMounted, intervalActive,
                 progressData, trackerError, hasCompleted, onCompleteCalls,
                 terminalSeen, failedPollSeen, droppedAfterClose>>

\* The catch block of fetchStatus: it logs when mounted and touches nothing.
PollErrorStopsPolling(j) ==
  /\ intervalActive' = [intervalActive EXCEPT ![j] = FALSE]
  /\ UNCHANGED <<elapsed, progressData, trackerError, hasCompleted, onCompleteCalls>>

PollErrorCaught(j) ==
  UNCHANGED <<intervalActive, elapsed, progressData, trackerError, hasCompleted,
              onCompleteCalls>>

\* A status request fails: fetch rejects (network error) or the answer is not
\* 2xx ('Status Fetch Failure' is thrown).
PollFails(j) ==
  /\ inFlight[j] > 0
  /\ inFlight' = [inFlight EXCEPT ![j] = @ - 1]
  /\ PollErrorCaught(j)
  /\ failedPollSeen' = [failedPollSeen EXCEPT ![j] = @ \/ isMounted[j]]
  /\ droppedAfterClose' = [droppedAfterClose EXCEPT ![j] = IF isMounted[j] THEN @ ELSE "error"]
  /\ UNCHANGED <<activeJobs, startedJobs, isMounted, pollParity, terminalSeen,
                 sentAfterFailure>>

\* if (!isMounted) return;
ResponseNeverIgnored(j) == FALSE

ResponseIgnored(j) == ~isMounted[j]

\* A status request is answered 2xx with `data` (the awaits of fetch and of
\* response.json() are one step: nothing is read or written between them).
PollAnswered(j, data) ==
  /\ inFlight[j] > 0
  /\ inFlight' = [inFlight EXCEPT ![j] = @ - 1]
  /\ IF ResponseIgnored(j)
     THEN /\ droppedAfterClose' = [droppedAfterClose EXCEPT ![j] = data.status]
          /\ UNCHANGED <<progressData, intervalActive, hasCompleted, onCompleteCalls,
                         trackerError, terminalSeen>>
     ELSE /\ progressData' = [progressData EXCEPT ![j] = data]
          /\ intervalActive' =
               [intervalActive EXCEPT ![j] = @ /\ data.status \notin {"completed", "failed"}]
          /\ hasCompleted' = [hasCompleted EXCEPT ![j] = @ \/ data.status = "completed"]
          /\ onCompleteCalls' =
               [onCompleteCalls EXCEPT ![j] =
                  IF data.status = "completed" /\ ~hasCompleted[j] /\ data.note_id # 0
                  THEN Append(@, data.note_id) ELSE @]
          /\ trackerError' =
               [trackerError EXCEPT ![j] =
                  IF data.status = "failed"
                  THEN Or(Str(data.message), Str("Signal Interrupted")) ELSE @]
          /\ terminalSeen' =
               [terminalSeen EXCEPT ![j] = @ \/ data.status \in {"completed", "failed"}]
          /\ UNCHANGED droppedAfterClose
  /\ UNCHANGED <<activeJobs, startedJobs, isMounted, elapsed, pollParity,
                 failedPollSeen, sentAfterFailure>>

\* The close button (rendered once there is progressData or an error):
\* handleJobClose filters the id out of activeJobs, the tracker unmounts and
\* the effect's cleanup runs.
JobClosed(j) ==
  /\ isMounted[j]
  /\ progressData[j] # NoData \/ trackerError[j] # Null
  /\ activeJobs' = FilterOut(activeJobs, j)
  /\ isMounted' = [isMounted EXCEPT ![j] = FALSE]
  /\ intervalActive' = [intervalActive EXCEPT ![j] = FALSE]
  /\ UNCHANGED <<startedJobs, elapsed, inFlight, progressData, trackerError,
                 hasCompleted, onCompleteCalls, pollParity, terminalSeen,
                 failedPollSeen, sentAfterFailure, droppedAfterClose>>

(***************************************************************************)
(* App (frontend/src/App.tsx): the notes list, the graph loads and          *)
(* handleProcessNote, with the server they talk to.                        *)
(***************************************************************************)
VARIABLES
  graphData,        \* the note whose graph is displayed (0: { nodes: [], links: [] })
  currentNoteId,    \* 0: null
  error,            \* the banner: Null or a message
  allNotes,         \* the notes list as last fetched
  processingNoteId, \* 0: null
  processingStatus, \* NoStatus: null
  pc,               \* where the run of handleProcessNote stands
  procNote,         \* its noteId argument
  pending,          \* the events of the chunk read that the for loop has yet to handle
  requests,         \* GET requests sent and not yet answered
  hideTimerArmed,   \* the setTimeout of the 'complete' branch is pending
  hideElapsed,      \* seconds since it was set
  serverProcessed,  \* server: the notes that have entities
  serverOrder,      \* server: the order in which GET /api/notes/ lists the notes
  streamEvents,     \* server: events it has put on the process stream
  streamEnded,      \* server: it has sent the stream's terminal event
  justHandled,      \* the event, or the non-2xx answer, the latest step handled (NoEvent: none)
  completeNote,     \* the note whose 'complete' event was handled (0: none yet)
  completeClean,    \* no other request was in flight when it was handled
  completeFailed    \* a request started by handling it failed

appVars ==
  <<graphData, currentNoteId, error, allNotes, processingNoteId, processingStatus,
    pc, procNote, pending, requests, hideTimerArmed, hideElapsed, serverProcessed,
    serverOrder, streamEvents, streamEnded, justHandled, completeNote, completeClean,
    completeFailed>>

\* Bounds: events the server puts on one process stream, and in one chunk.
MaxStreamEvents == 3
MaxChunkEvents == 2

\* setTimeout(..., 3000)
HIDE_DELAY_SECONDS == 3

Notes == {1, 2}

NoStatus == [stage |-> "null", message |-> "", progress |-> 0]

InitialStatus ==
  [stage |-> "extracting", message |-> "Initializing processing...", progress |-> 0]

\* The events of a process stream: 'data: {json}' events by stage, a data
\* event whose JSON does not parse, and an event without the 'data: ' prefix.
NoEvent == [kind |-> "none", stage |-> "", message |-> "", progress |-> 0]

ProgressEvent ==
  [kind |-> "data", stage |-> "extracting", message |-> "Extracting entities", progress |-> 30]

CompleteEvent ==
  [kind |-> "data", stage |-> "complete", message |-> "Processing complete", progress |-> 100]

ErrorEvent ==
  [kind |-> "data", stage |-> "error", message |-> "AI service unavailable", progress |-> 0]

MalformedEvent == [kind |-> "malformed", stage |-> "", message |-> "", progress |-> 0]

CommentEvent == [kind |-> "comment", stage |-> "", message |-> "", progress |-> 0]

TerminalEvents == {CompleteEvent, ErrorEvent}

StreamEventPool == {ProgressEvent, MalformedEvent, CommentEvent} \cup TerminalEvents

\* What the server may put in one chunk: up to MaxChunkEvents events, a
\* terminal stage only as the last one.
ChunkChoices ==
  UNION { { c \in [1..n -> StreamEventPool] :
            \A i \in 1..(n - 1) : c[i] \notin TerminalEvents } : n \in 1..MaxChunkEvents }

Permutations2(S) ==
  { q \in [1..Cardinality(S) -> S] : \A i, j \in 1..Cardinality(S) : i # j => q[i] # q[j] }

\* GET /api/notes/ as the server answers it now.
NotesListing ==
  [i \in 1..Len(serverOrder) |->
     [id |-> serverOrder[i], has_entities |-> serverOrder[i] \in serverProcessed]]

NotesRequest(origin, awaited) ==
  [kind |-> "notes", note |-> 0, origin |-> origin, awaited |-> awaited]

GraphRequest(note, origin, awaited) ==
  [kind |-> "graph", note |-> note, origin |-> origin, awaited |-> awaited]

\* After construction: the first render is done and the mount effect has
\* called loadFirstNote(), whose request is in flight.
InitApp ==
  /\ graphData = 0
  /\ currentNoteId = 0
  /\ error = Null
  /\ allNotes = <<>>
  /\ processingNoteId = 0
  /\ processingStatus = NoStatus
  /\ pc = "idle"
  /\ procNote = 0
  /\ pending = <<>>
  /\ requests = {NotesRequest("mount", FALSE)}
  /\ hideTimerArmed = FALSE
  /\ hideElapsed = 0
  /\ serverProcessed \in SUBSET Notes
  /\ serverOrder \in Permutations2(Notes)
  /\ streamEvents = 0
  /\ streamEnded = FALSE
  /\ justHandled = NoEvent
  /\ completeNote = 0
  /\ completeClean = FALSE
  /\ completeFailed = FALSE

\* data.notes.find(n => n.entity_count > 0): 0 when there is none.
RECURSIVE FirstNoteWithEntities(_)
FirstNoteWithEntities(notes) ==
  IF notes = <<>> THEN 0
  ELSE IF Head(notes).has_entities THEN Head(notes).id
  ELSE FirstNoteWithEntities(Tail(notes))

\* The for loop goes on with the rest of the chunk, or the while loop reads.
PcAfterEvent(rest) == IF rest = <<>> THEN "reading" ELSE "events"

\* The process button of an unprocessed note of the list: handleProcessNote up
\* to its await of fetch.
StartProcess(n) ==
  /\ pc = "idle"
  /\ \E i \in 1..Len(allNotes) : allNotes[i].id = n /\ ~allNotes[i].has_entities
  /\ processingNoteId' = n
  /\ error' = Null
  /\ processingStatus' = InitialStatus
  /\ procNote' = n
  /\ pc' = "awaitProcessFetch"
  /\ justHandled' = NoEvent
  /\ UNCHANGED <<graphData, currentNoteId, allNotes, pending, requests, hideTimerArmed,
                 hideElapsed, serverProcessed, serverOrder, streamEvents, streamEnded,
                 completeNote, completeClean, completeFailed>>

\* The outer catch: the message in the banner, the processing display closed.
OuterCatch(message) ==
  /\ error' = Str(message)
  /\ processingNoteId' = 0
  /\ processingStatus' = NoStatus
  /\ pc' = "done"
  /\ pending' = <<>>

\* fetch of POST /process rejects (no connection).
ProcessFetchRejects ==
  /\ pc = "awaitProcessFetch"
  /\ OuterCatch("Failed to fetch")
  /\ justHandled' = NoEvent
  /\ UNCHANGED <<graphData, currentNoteId, allNotes, procNote, requests, hideTimerArmed,
                 hideElapsed, serverProcessed, serverOrder, streamEvents, streamEnded,
                 completeNote, completeClean, completeFailed>>

\* A non-2xx answer of POST /process as the latest thing handled: stage says
\* whether its body carries a detail message, message is that detail.
NotOkAnswer(detail) ==
  [kind |-> "notOk",
   stage |-> IF detail.t = "string" THEN "detail" ELSE "nodetail",
   message |-> IF detail.t = "string" THEN detail.v ELSE "",
   progress |-> 0]

\* POST /process is answered with a non-2xx status: errorData.detail, or
\* 'Processing failed' when the body carries none.
ProcessNotOk(detail) ==
  /\ pc = "awaitProcessFetch"
  /\ OuterCatch(Or(detail, Str("Processing failed")).v)
  /\ justHandled' = NotOkAnswer(detail)
  /\ UNCHANGED <<graphData, currentNoteId, allNotes, procNote, requests, hideTimerArmed,
                 hideElapsed, serverProcessed, serverOrder, streamEvents, streamEnded,
                 completeNote, completeClean, completeFailed>>

\* POST /process is answered 2xx: the reader is taken and the first read awaited.
ProcessOk ==
  /\ pc = "awaitProcessFetch"
  /\ pc' = "reading"
  /\ justHandled' = NoEvent
  /\ UNCHANGED <<graphData, currentNoteId, error, allNotes, processingNoteId,
                 processingStatus, procNote, pending, requests, hideTimerArmed,
                 hideElapsed, serverProcessed, serverOrder, streamEvents, streamEnded,
                 completeNote, completeClean, completeFailed>>

\* reader.read() yields a chunk that completes the events of `chunk` (the
\* server has finished the note's processing when it sends 'complete').
ReadChunk(chunk) ==
  /\ pc = "reading"
  /\ ~streamEnded
  /\ streamEvents + Len(chunk) <= MaxStreamEvents
  /\ streamEvents' = streamEvents + Len(chunk)
  /\ streamEnded' = (chunk[Len(chunk)] \in TerminalEvents)
  /\ serverProcessed' =
       IF chunk[Len(chunk)] = CompleteEvent THEN serverProcessed \cup {procNote}
       ELSE serverProcessed
  /\ pending' = chunk
  /\ pc' = "events"
  /\ justHandled' = NoEvent
  /\ UNCHANGED <<graphData, currentNoteId, error, allNotes, processingNoteId,
                 processingStatus, procNote, requests, hideTimerArmed, hideElapsed,
                 serverOrder, completeNote, completeClean, completeFailed>>

\* reader.read() yields done: break, and handleProcessNote returns.
ReadDone ==
  /\ pc = "reading"
  /\ pc' = "done"
  /\ justHandled' = NoEvent
  /\ UNCHANGED <<graphData, currentNoteId, error, allNotes, processingNoteId,
                 processingStatus, procNote, pending, requests, hideTimerArmed,
                 hideElapsed, serverProcessed, serverOrder, streamEvents, streamEnded,
                 completeNote, completeClean, completeFailed>>

\* reader.read() rejects (the connection broke).
ReadRejects ==
  /\ pc = "reading"
  /\ ~streamEnded
  /\ OuterCatch("network error")
  /\ justHandled' = NoEvent
  /\ UNCHANGED <<graphData, currentNoteId, allNotes, procNote, requests, hideTimerArmed,
                 hideElapsed, serverProcessed, serverOrder, streamEvents, streamEnded,
                 completeNote, completeClean, completeFailed>>

\* One turn of the for loop on an event that is no 'complete' data event: an
\* event without the prefix is skipped, one whose JSON does not parse is
\* warned about, a data event sets processingStatus; the Error thrown for
\* stage 'error' is thrown inside the try of JSON.parse and caught by its catch.
HandleEvent ==
  /\ pc = "events"
  /\ pending # <<>>
  /\ Head(pending) # CompleteEvent
  /\ processingStatus' =
       IF Head(pending).kind = "data"
       THEN [stage |-> Head(pending).stage, message |-> Head(pending).message,
             progress |-> Head(pending).progress]
       ELSE processingStatus
  /\ pending' = Tail(pending)
  /\ pc' = PcAfterEvent(Tail(pending))
  /\ justHandled' = Head(pending)
  /\ UNCHANGED <<graphData, currentNoteId, error, allNotes, processingNoteId, procNote,
                 requests, hideTimerArmed, hideElapsed, serverProcessed, serverOrder,
                 streamEvents, streamEnded, completeNote, completeClean, completeFailed>>

\* The for loop on a 'complete' event: processingStatus is set and
\* loadFirstNote() is called and awaited.
HandleComplete ==
  /\ pc = "events"
  /\ pending # <<>>
  /\ Head(pending) = CompleteEvent
  /\ processingStatus' =
       [stage |-> "complete", message |-> Head(pending).message,
        progress |-> Head(pending).progress]
  /\ requests' = requests \cup {NotesRequest("complete", TRUE)}
  /\ pc' = "awaitLoadFirstNote"
  /\ justHandled' = Head(pending)
  /\ completeNote' = procNote
  /\ completeClean' = (requests = {})
  /\ completeFailed' = FALSE
  /\ UNCHANGED <<graphData, currentNoteId, error, allNotes, processingNoteId, procNote,
                 pending, hideTimerArmed, hideElapsed, serverProcessed, serverOrder,
                 streamEvents, streamEnded>>

\* The graph requests in flight once loadFirstNote has gone on after its
\* answer (it calls loadGraphData for the first note with entities and does
\* not await it) and, for the awaited call of handleProcessNote, the handler
\* has gone on to loadGraphData(noteId).
RequestsAfterNotes(req, listing) ==
  (requests \ {req})
    \cup (IF FirstNoteWithEntities(listing) # 0
          THEN {GraphRequest(FirstNoteWithEntities(listing), req.origin, FALSE)}
          ELSE {})
    \cup (IF req.awaited THEN {GraphRequest(procNote, req.origin, TRUE)} ELSE {})

\* GET /api/notes/ is answered.
NotesAnswered(req) ==
  /\ req \in requests
  /\ req.kind = "notes"
  /\ allNotes' = NotesListing
  /\ requests' = RequestsAfterNotes(req, NotesListing)
  /\ error' = IF FirstNoteWithEntities(NotesListing) # 0 \/ req.awaited THEN Null ELSE error
  /\ pc' = IF req.awaited THEN "awaitLoadGraph" ELSE pc
  /\ justHandled' = NoEvent
  /\ UNCHANGED <<graphData, currentNoteId, processingNoteId, processingStatus, procNote,
                 pending, hideTimerArmed, hideElapsed, serverProcessed, serverOrder,
                 streamEvents, streamEnded, completeNote, completeClean, completeFailed>>

\* GET /api/notes/ fails: loadFirstNote's catch sets the banner and returns;
\* the awaiting handler goes on to loadGraphData(noteId), which clears it.
NotesFails(req) ==
  /\ req \in requests
  /\ req.kind = "notes"
  /\ requests' =
       (requests \ {req})
         \cup (IF req.awaited THEN {GraphRequest(procNote, req.origin, TRUE)} ELSE {})
  /\ error' =
       IF req.awaited THEN Null
       ELSE Str("Failed to connect to backend. Make sure the server is running on port 8002.")
  /\ pc' = IF req.awaited THEN "awaitLoadGraph" ELSE pc
  /\ justHandled' = NoEvent
  /\ completeFailed' = (completeFailed \/ req.origin = "complete")
  /\ UNCHANGED <<graphData, currentNoteId, allNotes, processingNoteId, processingStatus,
                 procNote, pending, hideTimerArmed, hideElapsed, serverProcessed,
                 serverOrder, streamEvents, streamEnded, completeNote, completeClean>>

\* What follows an awaited loadGraphData in handleProcessNote: the timer is
\* set and the for loop goes on.
AfterAwaitedGraph(req) ==
  /\ hideTimerArmed' = (hideTimerArmed \/ req.awaited)
  /\ hideElapsed' = IF req.awaited THEN 0 ELSE hideElapsed
  /\ pending' = IF req.awaited THEN Tail(pending) ELSE pending
  /\ pc' = IF req.awaited THEN PcAfterEvent(Tail(pending)) ELSE pc

\* GET /api/notes/{id}/graph is answered 2xx: the transformed graph is
\* displayed and the note becomes the current one.
GraphAnswered(req) ==
  /\ req \in requests
  /\ req.kind = "graph"
  /\ requests' = requests \ {req}
  /\ graphData' = req.note
  /\ currentNoteId' = req.note
  /\ AfterAwaitedGraph(req)
  /\ justHandled' = NoEvent
  /\ UNCHANGED <<error, allNotes, processingNoteId, processingStatus, procNote,
                 serverProcessed, serverOrder, streamEvents, streamEnded, completeNote,
                 completeClean, completeFailed>>

\* GET /api/notes/{id}/graph fails (fetch rejects or the answer is not 2xx):
\* loadGraphData's catch sets the banner.
GraphFails(req) ==
  /\ req \in requests
  /\ req.kind = "graph"
  /\ requests' = requests \ {req}
  /\ error' = Str("Failed to load graph")
  /\ AfterAwaitedGraph(req)
  /\ justHandled' = NoEvent
  /\ completeFailed' = (completeFailed \/ req.origin = "complete")
  /\ UNCHANGED <<graphData, currentNoteId, allNotes, processingNoteId, processingStatus,
                 procNote, serverProcessed, serverOrder, streamEvents, streamEnded,
                 completeNote, completeClean>>

\* One second passes; a timer that is due fires first.
SecondPasses ==
  /\ hideTimerArmed
  /\ hideElapsed < HIDE_DELAY_SECONDS
  /\ hideElapsed' = hideElapsed + 1
  /\ justHandled' = NoEvent
  /\ UNCHANGED <<graphData, currentNoteId, error, allNotes, processingNoteId,
                 processingStatus, pc, procNote, pending, requests, hideTimerArmed,
                 serverProcessed, serverOrder, streamEvents, streamEnded, completeNote,
                 completeClean, completeFailed>>

\* The timer of the 'complete' branch fires: the processing display closes.
HideTimerFires ==
  /\ hideTimerArmed
  /\ hideElapsed = HIDE_DELAY_SECONDS
  /\ hideTimerArmed' = FALSE
  /\ processingNoteId' = 0
  /\ processingStatus' = NoStatus
  /\ justHandled' = NoEvent
  /\ UNCHANGED <<graphData, currentNoteId, error, allNotes, pc, procNote, pending,
                 requests, hideElapsed, serverProcessed, serverOrder, streamEvents,
                 streamEnded, completeNote, completeClean, completeFailed>>

\* What a non-2xx answer of POST /process may carry as errorData.detail.
ErrorDetails == {Str("Note not found"), Undefined}

(***************************************************************************)
(* handleProcessNote of the later App (the useCallback version): what it    *)
(* does differently from App.tsx.                                          *)
(***************************************************************************)
InitialStatusCallback ==
  [stage |-> "extracting", message |-> "Initializing...", progress |-> 0]

StartProcessCallback(n) ==
  /\ pc = "idle"
  /\ \E i \in 1..Len(allNotes) : allNotes[i].id = n /\ ~allNotes[i].has_entities
  /\ processingNoteId' = n
  /\ error' = Null
  /\ processingStatus' = InitialStatusCallback
  /\ procNote' = n
  /\ pc' = "awaitProcessFetch"
  /\ justHandled' = NoEvent
  /\ UNCHANGED <<graphData, currentNoteId, allNotes, pending, requests, hideTimerArmed,
                 hideElapsed, serverProcessed, serverOrder, streamEvents, streamEnded,
                 completeNote, completeClean, completeFailed>>

\* POST /process is answered with a non-2xx status: the body is not read,
\* 'Processing failed' is thrown whatever it carries.
ProcessNotOkCallback(detail) ==
  /\ pc = "awaitProcessFetch"
  /\ OuterCatch("Processing failed")
  /\ justHandled' = NotOkAnswer(detail)
  /\ UNCHANGED <<graphData, currentNoteId, allNotes, procNote, requests, hideTimerArmed,
                 hideElapsed, serverProcessed, serverOrder, streamEvents, streamEnded,
                 completeNote, completeClean, completeFailed>>

\* The for loop on a 'complete' event: loadFirstNote(false) is called and awaited.
HandleCompleteCallback ==
  /\ pc = "events"
  /\ pending # <<>>
  /\ Head(pending) = CompleteEvent
  /\ processingStatus' =
       [stage |-> "complete", message |-> Head(pending).message,
        progress |-> Head(pending).progress]
  /\ requests' = requests \cup {NotesRequest("completeNoAutoLoad", TRUE)}
  /\ pc' = "awaitLoadFirstNote"
  /\ justHandled' = Head(pending)
  /\ completeNote' = procNote
  /\ completeClean' = (requests = {})
  /\ completeFailed' = FALSE
  /\ UNCHANGED <<graphData, currentNoteId, error, allNotes, processingNoteId, procNote,
                 pending, hideTimerArmed, hideElapsed, serverProcessed, serverOrder,
                 streamEvents, streamEnded>>

\* GET /api/notes/ of loadFirstNote(false) is answered: the list is stored, no
\* graph is loaded for the first note, and the handler goes on to
\* loadGraphData(noteId).
NotesAnsweredNoAutoLoad(req) ==
  /\ req \in requests
  /\ req.kind = "notes"
  /\ req.origin = "completeNoAutoLoad"
  /\ allNotes' = NotesListing
  /\ requests' = (requests \ {req}) \cup {GraphRequest(procNote, req.origin, TRUE)}
  /\ error' = Null
  /\ pc' = "awaitLoadGraph"
  /\ justHandled' = NoEvent
  /\ UNCHANGED <<graphData, currentNoteId, processingNoteId, processingStatus, procNote,
                 pending, hideTimerArmed, hideElapsed, serverProcessed, serverOrder,
                 streamEvents, streamEnded, completeNote, completeClean, completeFailed>>

(***************************************************************************)
(* App (frontend/src/App.tsx): deleting a note and uploading a file.        *)
(***************************************************************************)
VARIABLES
  isProcessing,         \* an upload is under way
  deletingNoteId,       \* 0: null
  showDeleteConfirm,    \* the note the confirmation modal is open for (0: null, closed)
  pcDelete,             \* where the run of handleDeleteConfirm stands
  deleteNoteId,         \* its local noteId
  closureCurrentNoteId, \* currentNoteId as the render that made the handler saw it
  deleteSent,           \* the notes DELETE requests were sent for, in order
  deletedViewed,        \* the viewed note whose DELETE succeeded in this run (0: none)
  deleteClean,          \* no request was in flight at the confirmation, no note click since
  pcUpload,             \* where the run of handleFileUpload stands
  uploadFile,           \* its file's name
  uploadedNoteId        \* uploadData.note_id (0: none yet)

manageVars ==
  <<isProcessing, deletingNoteId, showDeleteConfirm, pcDelete, deleteNoteId,
    closureCurrentNoteId, deleteSent, deletedViewed, deleteClean, pcUpload, uploadFile,
    uploadedNoteId>>

\* Bound: DELETE requests sent in one behaviour.
MaxDeleteRequests == 2

InitManage ==
  /\ isProcessing = FALSE
  /\ deletingNoteId = 0
  /\ showDeleteConfirm = 0
  /\ pcDelete = "idle"
  /\ deleteNoteId = 0
  /\ closureCurrentNoteId = 0
  /\ deleteSent = <<>>
  /\ deletedViewed = 0
  /\ deleteClean = FALSE
  /\ pcUpload = "idle"
  /\ uploadFile = ""
  /\ uploadedNoteId = 0

\* What the user did in the latest step, as justHandled records it.
UserAction(kind, stage) == [kind |-> kind, stage |-> stage, message |-> "", progress |-> 0]

\* The ids of the notes the server holds.
ServerNoteIds == {serverOrder[i] : i \in 1..Len(serverOrder)}

NoteListed(n) == \E i \in 1..Len(allNotes) : allNotes[i].id = n

\* A click on a processed note of the list: loadGraphData(note.id) up to its fetch.
NoteClick(n) ==
  /\ \E i \in 1..Len(allNotes) : allNotes[i].id = n /\ allNotes[i].has_entities
  /\ error' = Null
  /\ requests' = requests \cup {GraphRequest(n, "click", FALSE)}
  /\ justHandled' = UserAction("noteClick", "")
  /\ deleteClean' = FALSE
  /\ UNCHANGED <<graphData, currentNoteId, allNotes, processingNoteId, processingStatus,
                 pc, procNote, pending, hideTimerArmed, hideElapsed, serverProcessed,
                 serverOrder, streamEvents, streamEnded, completeNote, completeClean,
                 completeFailed>>
  /\ UNCHANGED <<isProcessing, deletingNoteId, showDeleteConfirm, pcDelete, deleteNoteId,
                 closureCurrentNoteId, deleteSent, deletedViewed, pcUpload, uploadFile,
                 uploadedNoteId>>

\* GET /api/notes/{id}/graph of a note the server holds is answered 2xx.
GraphOfHeldNoteAnswered(req) ==
  /\ req.note \in ServerNoteIds
  /\ GraphAnswered(req)

\* The delete button of a listed note (disabled while that note is being
\* deleted); one deletion runs at a time.
handleDeleteClick(n) ==
  /\ NoteListed(n)
  /\ deletingNoteId # n
  /\ pcDelete = "idle"
  /\ Len(deleteSent) < MaxDeleteRequests
  /\ showDeleteConfirm' = n
  /\ justHandled' = UserAction("deleteClick", "")
  /\ UNCHANGED <<graphData, currentNoteId, error, allNotes, processingNoteId,
                 processingStatus, pc, procNote, pending, requests, hideTimerArmed,
                 hideElapsed, serverProcessed, serverOrder, streamEvents, streamEnded,
                 completeNote, completeClean, completeFailed>>
  /\ UNCHANGED <<isProcessing, deletingNoteId, pcDelete, deleteNoteId,
                 closureCurrentNoteId, deleteSent, deletedViewed, deleteClean, pcUpload,
                 uploadFile, uploadedNoteId>>

handleDeleteCancel ==
  /\ showDeleteConfirm' = 0
  /\ justHandled' = UserAction("deleteCancel", "")
  /\ UNCHANGED <<graphData, currentNoteId, error, allNotes, processingNoteId,
                 processingStatus, pc, procNote, pending, requests, hideTimerArmed,
                 hideElapsed, serverProcessed, serverOrder, streamEvents, streamEnded,
                 completeNote, completeClean, completeFailed>>
  /\ UNCHANGED <<isProcessing, deletingNoteId, pcDelete, deleteNoteId,
                 closureCurrentNoteId, deleteSent, deletedViewed, deleteClean, pcUpload,
                 uploadFile, uploadedNoteId>>

\* handleDeleteConfirm for an open modal, up to its await of fetch: the modal
\* closes and the DELETE request is sent.
DeleteConfirmSends ==
  /\ deleteNoteId' = showDeleteConfirm
  /\ deletingNoteId' = showDeleteConfirm
  /\ showDeleteConfirm' = 0
  /\ closureCurrentNoteId' = currentNoteId
  /\ pcDelete' = "awaitDelete"
  /\ deleteSent' = Append(deleteSent, showDeleteConfirm)
  /\ deletedViewed' = 0
  /\ deleteClean' = (requests = {})
  /\ justHandled' = UserAction("deleteConfirm", "open")
  /\ UNCHANGED <<graphData, currentNoteId, error, allNotes, processingNoteId,
                 processingStatus, pc, procNote, pending, requests, hideTimerArmed,
                 hideElapsed, serverProcessed, serverOrder, streamEvents, streamEnded,
                 completeNote, completeClean, completeFailed>>
  /\ UNCHANGED <<isProcessing, pcUpload, uploadFile, uploadedNoteId>>

\* handleDeleteConfirm without its first statement.
handleDeleteConfirmUnguarded == DeleteConfirmSends

\* handleDeleteConfirm: it returns at once when no modal is open.
handleDeleteConfirm ==
  IF showDeleteConfirm = 0
  THEN /\ justHandled' = UserAction("deleteConfirm", "closed")
       /\ UNCHANGED <<graphData, currentNoteId, error, allNotes, processingNoteId,
                      processingStatus, pc, procNote, pending, requests, hideTimerArmed,
                      hideElapsed, serverProcessed, serverOrder, streamEvents, streamEnded,
                      completeNote, completeClean, completeFailed>>
       /\ UNCHANGED manageVars
  ELSE DeleteConfirmSends

\* DELETE is answered 2xx: the server has dropped the note; loadFirstNote() is
\* called and awaited.
DeleteAnswered ==
  /\ pcDelete = "awaitDelete"
  /\ deleteNoteId \in ServerNoteIds
  /\ serverOrder' = SelectSeq(serverOrder, LAMBDA m : m # deleteNoteId)
  /\ serverProcessed' = serverProcessed \ {deleteNoteId}
  /\ requests' = requests \cup {NotesRequest("delete", TRUE)}
  /\ pcDelete' = "awaitLoadFirstNote"
  /\ deletedViewed' =
       IF currentNoteId = deleteNoteId /\ closureCurrentNoteId = deleteNoteId
       THEN deleteNoteId ELSE 0
  /\ justHandled' = NoEvent
  /\ UNCHANGED <<graphData, currentNoteId, error, allNotes, processingNoteId,
                 processingStatus, pc, procNote, pending, hideTimerArmed, hideElapsed,
                 streamEvents, streamEnded, completeNote, completeClean, completeFailed>>
  /\ UNCHANGED <<isProcessing, deletingNoteId, showDeleteConfirm, deleteNoteId,
                 closureCurrentNoteId, deleteSent, deleteClean, pcUpload, uploadFile,
                 uploadedNoteId>>

\* DELETE fails (fetch rejects, or the answer is not 2xx): the catch sets the
\* banner, the finally block ends the deletion.
DeleteFails(message) ==
  /\ pcDelete = "awaitDelete"
  /\ error' = Str(message)
  /\ deletingNoteId' = 0
  /\ pcDelete' = "idle"
  /\ justHandled' = NoEvent
  /\ UNCHANGED <<graphData, currentNoteId, allNotes, processingNoteId, processingStatus,
                 pc, procNote, pending, requests, hideTimerArmed, hideElapsed,
                 serverProcessed, serverOrder, streamEvents, streamEnded, completeNote,
                 completeClean, completeFailed>>
  /\ UNCHANGED <<isProcessing, showDeleteConfirm, deleteNoteId, closureCurrentNoteId,
                 deleteSent, deletedViewed, deleteClean, pcUpload, uploadFile,
                 uploadedNoteId>>

DeleteFailureMessages == {"Delete failed", "Failed to fetch"}

\* What follows the awaited loadFirstNote() in handleDeleteConfirm: the graph
\* is cleared when the handler's currentNoteId is the deleted note, and the
\* finally block ends the deletion.
AfterDeleteRefresh ==
  /\ graphData' = IF closureCurrentNoteId = deleteNoteId THEN 0 ELSE graphData
  /\ currentNoteId' = IF closureCurrentNoteId = deleteNoteId THEN 0 ELSE currentNoteId
  /\ deletingNoteId' = 0
  /\ pcDelete' = "idle"

\* GET /api/notes/ of the refresh is answered: loadFirstNote stores the list
\* and starts loadGraphData for the first note with entities without awaiting
\* it; the handler goes on.
DeleteNotesAnswered(req) ==
  /\ req \in requests
  /\ req.kind = "notes"
  /\ req.origin = "delete"
  /\ allNotes' = NotesListing
  /\ requests' =
       (requests \ {req})
         \cup (IF FirstNoteWithEntities(NotesListing) # 0
               THEN {GraphRequest(FirstNoteWithEntities(NotesListing), "delete", FALSE)}
               ELSE {})
  /\ error' = IF FirstNoteWithEntities(NotesListing) # 0 THEN Null ELSE error
  /\ AfterDeleteRefresh
  /\ justHandled' = NoEvent
  /\ UNCHANGED <<processingNoteId, processingStatus, pc, procNote, pending,
                 hideTimerArmed, hideElapsed, serverProcessed, serverOrder, streamEvents,
                 streamEnded, completeNote, completeClean, completeFailed>>
  /\ UNCHANGED <<isProcessing, showDeleteConfirm, deleteNoteId, closureCurrentNoteId,
                 deleteSent, deletedViewed, deleteClean, pcUpload, uploadFile,
                 uploadedNoteId>>

\* GET /api/notes/ of the refresh fails: loadFirstNote's catch sets the
\* banner; the handler goes on.
DeleteNotesFails(req) ==
  /\ req \in requests
  /\ req.kind = "notes"
  /\ req.origin = "delete"
  /\ requests' = requests \ {req}
  /\ error' = Str("Failed to connect to backend. Make sure the server is running on port 8002.")
  /\ AfterDeleteRefresh
  /\ justHandled' = NoEvent
  /\ UNCHANGED <<allNotes, processingNoteId, processingStatus, pc, procNote, pending,
                 hideTimerArmed, hideElapsed, serverProcessed, serverOrder, streamEvents,
                 streamEnded, completeNote, completeClean, completeFailed>>
  /\ UNCHANGED <<isProcessing, showDeleteConfirm, deleteNoteId, closureCurrentNoteId,
                 deleteSent, deletedViewed, deleteClean, pcUpload, uploadFile,
                 uploadedNoteId>>

\* The files the user uploads, and the id the server gives the new note.
FileNames == {"notes.txt", "ideas.md"}

NewNoteId == Cardinality(Notes) + 1

\* The banner text after an accepted upload, up to its sentence about the
\* upload (the check mark before it and the instructions after it are left out).
UploadSuccessMessage(name, noteId) ==
  "Note \"" \o name \o "\" uploaded successfully (ID: " \o String(noteId) \o ")!"

\* handleFileUpload up to its await of fetch (the panel takes no file while
\* isProcessing); one upload in a behaviour.
handleFileUpload(file) ==
  /\ ~isProcessing
  /\ pcUpload = "idle"
  /\ isProcessing' = TRUE
  /\ error' = Null
  /\ uploadFile' = file
  /\ pcUpload' = "awaitUpload"
  /\ justHandled' = UserAction("upload", "")
  /\ UNCHANGED <<graphData, currentNoteId, allNotes, processingNoteId, processingStatus,
                 pc, procNote, pending, requests, hideTimerArmed, hideElapsed,
                 serverProcessed, serverOrder, streamEvents, streamEnded, completeNote,
                 completeClean, completeFailed>>
  /\ UNCHANGED <<deletingNoteId, showDeleteConfirm, pcDelete, deleteNoteId,
                 closureCurrentNoteId, deleteSent, deletedViewed, deleteClean,
                 uploadedNoteId>>

\* POST /api/notes/upload is answered 2xx: the server holds a new unprocessed
\* note (first or last of its list); the success message is set and
\* loadFirstNote() is called and awaited.
UploadAnswered(atFront) ==
  /\ pcUpload = "awaitUpload"
  /\ serverOrder' =
       IF atFront THEN <<NewNoteId>> \o serverOrder ELSE Append(serverOrder, NewNoteId)
  /\ uploadedNoteId' = NewNoteId
  /\ error' = Str(UploadSuccessMessage(uploadFile, NewNoteId))
  /\ requests' = requests \cup {NotesRequest("upload", TRUE)}
  /\ pcUpload' = "awaitLoadFirstNote"
  /\ justHandled' = NoEvent
  /\ UNCHANGED <<graphData, currentNoteId, allNotes, processingNoteId, processingStatus,
                 pc, procNote, pending, hideTimerArmed, hideElapsed, serverProcessed,
                 streamEvents, streamEnded, completeNote, completeClean, completeFailed>>
  /\ UNCHANGED <<isProcessing, deletingNoteId, showDeleteConfirm, pcDelete, deleteNoteId,
                 closureCurrentNoteId, deleteSent, deletedViewed, deleteClean, uploadFile>>

\* The upload fails (fetch rejects, or the answer is not 2xx): the catch sets
\* the banner, the finally block ends the upload.
UploadFails(message) ==
  /\ pcUpload = "awaitUpload"
  /\ error' = Str(message)
  /\ isProcessing' = FALSE
  /\ pcUpload' = "done"
  /\ justHandled' = UserAction("uploadDone", "failed")
  /\ UNCHANGED <<graphData, currentNoteId, allNotes, processingNoteId, processingStatus,
                 pc, procNote, pending, requests, hideTimerArmed, hideElapsed,
                 serverProcessed, serverOrder, streamEvents, streamEnded, completeNote,
                 completeClean, completeFailed>>
  /\ UNCHANGED <<deletingNoteId, showDeleteConfirm, pcDelete, deleteNoteId,
                 closureCurrentNoteId, deleteSent, deletedViewed, deleteClean, uploadFile,
                 uploadedNoteId>>

UploadFailureMessages == {"Upload failed", "Failed to fetch"}

\* GET /api/notes/ of the refresh is answered: loadFirstNote stores the list
\* and starts loadGraphData for the first note with entities (which clears
\* the banner) without awaiting it; handleFileUpload finishes.
UploadNotesAnswered(req) ==
  /\ req \in requests
  /\ req.kind = "notes"
  /\ req.origin = "upload"
  /\ allNotes' = NotesListing
  /\ requests' =
       (requests \ {req})
         \cup (IF FirstNoteWithEntities(NotesListing) # 0
               THEN {GraphRequest(FirstNoteWithEntities(NotesListing), "upload", FALSE)}
               ELSE {})
  /\ error' = IF FirstNoteWithEntities(NotesListing) # 0 THEN Null ELSE error
  /\ isProcessing' = FALSE
  /\ pcUpload' = "done"
  /\ justHandled' = UserAction("uploadDone", "accepted")
  /\ UNCHANGED <<graphData, currentNoteId, processingNoteId, processingStatus, pc,
                 procNote, pending, hideTimerArmed, hideElapsed, serverProcessed,
                 serverOrder, streamEvents, streamEnded, completeNote, completeClean,
                 completeFailed>>
  /\ UNCHANGED <<deletingNoteId, showDeleteConfirm, pcDelete, deleteNoteId,
                 closureCurrentNoteId, deleteSent, deletedViewed, deleteClean, uploadFile,
                 uploadedNoteId>>

\* GET /api/notes/ of the refresh fails: loadFirstNote's catch sets the
\* banner; handleFileUpload finishes.
UploadNotesFails(req) ==
  /\ req \in requests
  /\ req.kind = "notes"
  /\ req.origin = "upload"
  /\ requests' = requests \ {req}
  /\ error' = Str("Failed to connect to backend. Make sure the server is running on port 8002.")
  /\ isProcessing' = FALSE
  /\ pcUpload' = "done"
  /\ justHandled' = UserAction("uploadDone", "refreshFailed")
  /\ UNCHANGED <<graphData, currentNoteId, allNotes, processingNoteId, processingStatus,
                 pc, procNote, pending, hideTimerArmed, hideElapsed, serverProcessed,
                 serverOrder, streamEvents, streamEnded, completeNote, completeClean,
                 completeFailed>>
  /\ UNCHANGED <<deletingNoteId, showDeleteConfirm, pcDelete, deleteNoteId,
                 closureCurrentNoteId, deleteSent, deletedViewed, deleteClean, uploadFile,
                 uploadedNoteId>>

(***************************************************************************)
(* UploadPanel (components/dashboard/UploadPanel.tsx).                      *)
(***************************************************************************)
VARIABLES
  isDragging,    \* the panel's state
  panelPath,     \* the handler the latest step ran: "none", "over", "leave", "drop", "select"
  panelFiles,    \* the files of the latest drop or selection
  uploadCalls    \* the files onFileUpload was called with, in order

panelVars == <<isDragging, panelPath, panelFiles, uploadCalls>>

\* Bounds: files in one drop or selection, and calls of onFileUpload.
MaxFiles == 2
MaxUploadCalls == 2

\* s.endsWith(suffix)
EndsWith(s, suffix) ==
  /\ Len(s) >= Len(suffix)
  /\ SubSeq(s, Len(s) - Len(suffix) + 1, Len(s)) = suffix

\* The files a user may drop or pick: name and MIME type as the browser gives them.
FilePool ==
  { [name |-> "notes.txt", type |-> "text/plain"],
    [name |-> "ideas.md", type |-> ""],
    [name |-> "README", type |-> "text/plain"],
    [name |-> "paper.pdf", type |-> "application/pdf"] }

FileLists == UNION { [1..n -> FilePool] : n \in 0..MaxFiles }

\* The predicate of files.find in handleDrop.
IsTextFile(file) ==
  \/ file.type = "text/plain"
  \/ EndsWith(file.name, ".txt")
  \/ EndsWith(file.name, ".md")

InitPanel ==
  /\ isDragging = FALSE
  /\ panelPath = "none"
  /\ panelFiles = <<>>
  /\ uploadCalls = <<>>

handleDragOver ==
  /\ ~isProcessing
  /\ isDragging' = TRUE
  /\ panelPath' = "over"
  /\ UNCHANGED <<panelFiles, uploadCalls>>

handleDragLeave ==
  /\ ~isProcessing
  /\ isDragging' = FALSE
  /\ panelPath' = "leave"
  /\ UNCHANGED <<panelFiles, uploadCalls>>

\* Files are dropped on the panel: the first text file among them is uploaded.
handleDrop(files) ==
  /\ ~isProcessing
  /\ Len(uploadCalls) < MaxUploadCalls
  /\ isDragging' = FALSE
  /\ panelPath' = "drop"
  /\ panelFiles' = files
  /\ uploadCalls' =
       IF \E i \in 1..Len(files) : IsTextFile(files[i])
       THEN Append(uploadCalls,
                   files[CHOOSE i \in 1..Len(files) :
                           /\ IsTextFile(files[i])
                           /\ \A k \in 1..(i - 1) : ~IsTextFile(files[k])])
       ELSE uploadCalls

\* The file input changes (the picker's accept filter is a hint the user can
\* lift): the first file of the selection is uploaded.
handleFileSelect(files) ==
  /\ ~isProcessing
  /\ Len(uploadCalls) < MaxUploadCalls
  /\ panelPath' = "select"
  /\ panelFiles' = files
  /\ uploadCalls' = IF Len(files) > 0 THEN Append(uploadCalls, files[1]) ELSE uploadCalls
  /\ UNCHANGED isDragging

(***************************************************************************)
(* Search and filters: SearchBar, FilterControls, and handleSearch and      *)
(* handleFilterChange of the later App.                                    *)
(***************************************************************************)
VARIABLES
  loadedGraph,        \* graphData of the later App: the nodes and links of the current note
  filteredGraphData,  \* <<>>: null, <<g>>: the graph g
  selectedNode,       \* <<>>: null, <<n>>: the node n
  query,              \* SearchBar's text
  searchesInFlight,   \* the number of search requests not yet answered
  viewError,          \* the banner of the later App
  selectedTypes,      \* FilterControls: the checked types, in order
  minStrength,        \* FilterControls: the slider, in tenths
  lastOp,             \* the handler the latest step ran, with the search answer it got
  mounted             \* the App that renders the controls: "later" or "App.tsx"

viewVars ==
  <<loadedGraph, filteredGraphData, selectedNode, query, searchesInFlight, viewError,
    selectedTypes, minStrength, lastOp, mounted>>

DEFAULT_TYPES == <<"concept", "technology", "idea", "person", "technique", "architecture">>

\* Bound: entities a search answer lists.
MaxResults == 2

\* A JSON number as a JavaScript value.
Num(n) == [t |-> "number", v |-> n]

\* Set.prototype.has and Array.prototype.includes compare with SameValueZero:
\* values of different types are never the same.
SameValueZero(a, b) == a.t = b.t /\ a.v = b.v

Has(values, x) == \E i \in 1..Len(values) : SameValueZero(values[i], x)

RECURSIVE TrimStart(_)
TrimStart(str) ==
  IF Len(str) > 0 /\ SubSeq(str, 1, 1) = " "
  THEN TrimStart(SubSeq(str, 2, Len(str)))
  ELSE str

RECURSIVE TrimEnd(_)
TrimEnd(str) ==
  IF Len(str) > 0 /\ SubSeq(str, Len(str), Len(str)) = " "
  THEN TrimEnd(SubSeq(str, 1, Len(str) - 1))
  ELSE str

\* String.prototype.trim (for blanks)
Trim(str) == TrimEnd(TrimStart(str))

\* array.filter(keep), for a Boolean function keep over the array's indices
RECURSIVE FilterFrom(_, _, _)
FilterFrom(array, keep, i) ==
  IF i > Len(array) THEN <<>>
  ELSE (IF keep[i] THEN <<array[i]>> ELSE <<>>) \o FilterFrom(array, keep, i + 1)

Filter(array, keep) == FilterFrom(array, keep, 1)

\* Array.from(new Set(array)): the first occurrences, in order.
Unique(array) ==
  Filter(array, [i \in 1..Len(array) |-> \A k \in 1..(i - 1) : array[k] # array[i]])

\* Graph responses of three notes: three entities of two types with links of
\* strength 0.8 and 0.5; two entities of one type with a link to an entity of
\* another note; a note without entities.
SearchedResponses ==
  { [entities |->
       << [id |-> 1, name |-> "SSR", entity_type |-> "concept",
           description |-> Undefined, color |-> Str("#FF70A6")],
          [id |-> 2, name |-> "React", entity_type |-> "technology",
           description |-> Undefined, color |-> Str("#FF9770")],
          [id |-> 3, name |-> "Next.js", entity_type |-> "technology",
           description |-> Undefined, color |-> Str("#FF9770")] >>,
     relationships |->
       << [source_entity_id |-> 1, target_entity_id |-> 2,
           relationship_type |-> "related_to", strength |-> 8,
           ai_explanation |-> Str("SSR is implemented using React")],
          [source_entity_id |-> 2, target_entity_id |-> 3,
           relationship_type |-> "prerequisite", strength |-> 5,
           ai_explanation |-> Undefined] >>],
    [entities |->
       << [id |-> 1, name |-> "SSR", entity_type |-> "concept",
           description |-> Undefined, color |-> Undefined],
          [id |-> 2, name |-> "CSR", entity_type |-> "concept",
           description |-> Undefined, color |-> Undefined] >>,
     relationships |->
       << [source_entity_id |-> 2, target_entity_id |-> 1,
           relationship_type |-> "related_to", strength |-> 5,
           ai_explanation |-> Undefined],
          [source_entity_id |-> 2, target_entity_id |-> 7,
           relationship_type |-> "related_to", strength |-> 8,
           ai_explanation |-> Undefined] >>],
    EmptyResponse }

\* The graphs loadGraphData stores for them.
GraphOf(apiResp) ==
  [nodes |-> transformAPIToGraphData(apiResp, EmptyMap).nodes,
   links |-> transformAPIToGraphData(apiResp, EmptyMap).links]

\* What the user types into the search box.
QueryTexts == {"", " ", "React", " React "}

\* The ids a search answer lists: entity ids as JSON numbers, up to
\* MaxResults of them, of this note (1, 2, 3) or of another (7).
ResultLists == UNION { [1..n -> {Num(1), Num(2), Num(3), Num(7)}] : n \in 0..MaxResults }

\* What the slider can be set to, in tenths.
StrengthChoices == {0, 5, 6, 10}

\* The types of the nodes of the graph, each once.
allTypes == Unique([i \in 1..Len(loadedGraph.nodes) |-> loadedGraph.nodes[i].type])

\* The availableTypes of FilterControls: the later App passes the types of
\* its graph, App.tsx passes nothing.
AvailableTypes == IF mounted = "App.tsx" THEN DEFAULT_TYPES ELSE allTypes

InitView ==
  /\ mounted = "later"
  /\ loadedGraph \in {GraphOf(r) : r \in SearchedResponses}
  /\ filteredGraphData = <<>>
  /\ selectedNode = <<>>
  /\ query = ""
  /\ searchesInFlight = 0
  /\ viewError = Null
  /\ selectedTypes = AvailableTypes
  /\ minStrength = 0
  /\ lastOp = [op |-> "none", results |-> <<>>]

\* The state of a view on which nothing happens: no graph is loaded.
ViewIdle == InitView /\ loadedGraph = GraphOf(EmptyResponse)

\* App.tsx with a graph loaded.
InitViewLogs ==
  /\ mounted = "App.tsx"
  /\ loadedGraph \in {GraphOf(r) : r \in SearchedResponses}
  /\ filteredGraphData = <<>>
  /\ selectedNode = <<>>
  /\ query = ""
  /\ searchesInFlight = 0
  /\ viewError = Null
  /\ selectedTypes = DEFAULT_TYPES
  /\ minStrength = 0
  /\ lastOp = [op |-> "none", results |-> <<>>]

Op(name) == [op |-> name, results |-> <<>>]

\* What the canvas gets: filteredGraphData || graphData when the graph has
\* nodes, the empty state otherwise.
Displayed ==
  IF Len(loadedGraph.nodes) > 0
  THEN (IF filteredGraphData # <<>> THEN filteredGraphData[1] ELSE loadedGraph)
  ELSE [nodes |-> <<>>, links |-> <<>>]

\* nodeIds.has(s) && nodeIds.has(t), for the Set of the ids of the nodes
LinkInside(link, nodes) ==
  LET nodeIds == [i \in 1..Len(nodes) |-> Str(nodes[i].id)]
  IN  Has(nodeIds, Str(link.source)) /\ Has(nodeIds, Str(link.target))

\* The onChange of the search box.
SetQuery(text) ==
  /\ query' = text
  /\ lastOp' = Op("setQuery")
  /\ UNCHANGED <<mounted, loadedGraph, filteredGraphData, selectedNode, searchesInFlight, viewError,
                 selectedTypes, minStrength>>

\* handleSearch with an empty query.
SearchEmpty ==
  /\ filteredGraphData' = <<>>
  /\ selectedNode' = <<>>
  /\ UNCHANGED <<searchesInFlight, viewError>>

\* handleSearch up to its fetch.
SearchSends ==
  /\ searchesInFlight < MaxInFlight
  /\ viewError' = Null
  /\ searchesInFlight' = searchesInFlight + 1
  /\ UNCHANGED <<filteredGraphData, selectedNode>>

handleSearch(q) == IF Trim(q) = "" THEN SearchEmpty ELSE SearchSends

\* SearchBar's handleSubmit in search mode: an empty query is not passed on.
handleSubmit ==
  /\ IF Trim(query) = ""
     THEN /\ lastOp' = Op("submitEmpty")
          /\ UNCHANGED <<filteredGraphData, selectedNode, searchesInFlight, viewError>>
     ELSE /\ handleSearch(Trim(query))
          /\ lastOp' = Op("submit")
  /\ UNCHANGED <<mounted, loadedGraph, query, selectedTypes, minStrength>>

\* SearchBar's handleClear: the button is there while the box holds text.
handleClear ==
  /\ query # ""
  /\ query' = ""
  /\ handleSearch("")
  /\ lastOp' = Op("clear")
  /\ UNCHANGED <<mounted, loadedGraph, selectedTypes, minStrength>>

\* handleSearch from the answer of its fetch on: a 2xx answer with its results.
SearchAnswered(results) ==
  /\ searchesInFlight > 0
  /\ searchesInFlight' = searchesInFlight - 1
  /\ IF Len(results) > 0
     THEN LET matchingIds == [i \in 1..Len(results) |-> results[i]]
              nodes == Filter(loadedGraph.nodes,
                              [i \in 1..Len(loadedGraph.nodes) |->
                                 Has(matchingIds, Str(loadedGraph.nodes[i].id))])
              links == Filter(loadedGraph.links,
                              [i \in 1..Len(loadedGraph.links) |->
                                 LinkInside(loadedGraph.links[i], nodes)])
          IN  /\ filteredGraphData' = <<[nodes |-> nodes, links |-> links]>>
              /\ selectedNode' = IF Len(nodes) > 0 THEN <<nodes[1]>> ELSE selectedNode
     ELSE /\ filteredGraphData' = <<>>
          /\ selectedNode' = <<>>
  /\ lastOp' = [op |-> "searchAnswered", results |-> results]
  /\ UNCHANGED <<mounted, loadedGraph, query, viewError, selectedTypes, minStrength>>

\* The fetch fails or answers outside 2xx.
SearchFails ==
  /\ searchesInFlight > 0
  /\ searchesInFlight' = searchesInFlight - 1
  /\ viewError' = Str("Search failed")
  /\ lastOp' = Op("searchFailed")
  /\ UNCHANGED <<mounted, loadedGraph, filteredGraphData, selectedNode, query, selectedTypes,
                 minStrength>>

\* A click on a node of the canvas.
NodeClick(i) ==
  /\ i \in 1..Len(Displayed.nodes)
  /\ selectedNode' = <<Displayed.nodes[i]>>
  /\ lastOp' = Op("nodeClick")
  /\ UNCHANGED <<mounted, loadedGraph, filteredGraphData, query, searchesInFlight, viewError,
                 selectedTypes, minStrength>>

\* handleFilterChange of the later App.
handleFilterChange(entityTypes, strength) ==
  IF Len(loadedGraph.nodes) = 0
  THEN UNCHANGED <<filteredGraphData, selectedNode>>
  ELSE IF Len(entityTypes) = Len(allTypes) /\ strength = 0
  THEN /\ filteredGraphData' = <<>>
       /\ UNCHANGED selectedNode
  ELSE LET nodes == Filter(loadedGraph.nodes,
                           [i \in 1..Len(loadedGraph.nodes) |->
                              \E k \in 1..Len(entityTypes) :
                                 entityTypes[k] = loadedGraph.nodes[i].type])
           links == Filter(loadedGraph.links,
                           [i \in 1..Len(loadedGraph.links) |->
                              /\ LinkInside(loadedGraph.links[i], nodes)
                              /\ loadedGraph.links[i].strength >= strength])
       IN  /\ filteredGraphData' = <<[nodes |-> nodes, links |-> links]>>
           /\ selectedNode' =
                IF /\ selectedNode # <<>>
                   /\ ~ \E i \in 1..Len(nodes) : nodes[i].id = selectedNode[1].id
                THEN <<>> ELSE selectedNode

\* handleFilterChange of App.tsx: it logs the filters.
handleFilterChangeLogs(entityTypes, strength) ==
  UNCHANGED <<filteredGraphData, selectedNode>>

\* The onFilterChange FilterControls is given.
onFilterChange(entityTypes, strength) ==
  IF mounted = "App.tsx"
  THEN handleFilterChangeLogs(entityTypes, strength)
  ELSE handleFilterChange(entityTypes, strength)

\* FilterControls: a click on the checkbox of a type.
handleTypeToggle(type) ==
  LET newTypes ==
        IF \E k \in 1..Len(selectedTypes) : selectedTypes[k] = type
        THEN Filter(selectedTypes, [k \in 1..Len(selectedTypes) |-> selectedTypes[k] # type])
        ELSE Append(selectedTypes, type)
  IN  /\ \E k \in 1..Len(AvailableTypes) : AvailableTypes[k] = type
      /\ selectedTypes' = newTypes
      /\ onFilterChange(newTypes, minStrength)
      /\ lastOp' = Op("filterChange")
      /\ UNCHANGED <<mounted, loadedGraph, query, searchesInFlight, viewError, minStrength>>

\* FilterControls: the slider is moved.
handleStrengthChange(value) ==
  /\ minStrength' = value
  /\ onFilterChange(selectedTypes, value)
  /\ lastOp' = Op("filterChange")
  /\ UNCHANGED <<mounted, loadedGraph, query, searchesInFlight, viewError, selectedTypes>>

\* FilterControls: the Reset button.
handleReset ==
  /\ selectedTypes' = AvailableTypes
  /\ minStrength' = 0
  /\ onFilterChange(AvailableTypes, 0)
  /\ lastOp' = Op("filterChange")
  /\ UNCHANGED <<mounted, loadedGraph, query, searchesInFlight, viewError>>

(***************************************************************************)
(* handleProcessNote: the text of the process stream, read chunk by chunk. *)
(***************************************************************************)
VARIABLES
  sentEvents,     \* the events the server writes, each followed by a blank line
  sentTail,       \* what it writes after the last blank line
  received,       \* the number of characters the reader has returned
  buffer,         \* handleProcessNote's buffer
  parsed,         \* the jsonStr of the events handled, in order
  readerDone,     \* reader.read() has returned done
  cutBlankLine    \* a chunk has ended between the two newlines of a blank line

streamVars == <<sentEvents, sentTail, received, buffer, parsed, readerDone, cutBlankLine>>

\* Bound: events of a stream text.
MaxTextEvents == 2

StartsWith(str, prefix) ==
  Len(str) >= Len(prefix) /\ SubSeq(str, 1, Len(prefix)) = prefix

\* str.substring(start)
Substring(str, start) == SubSeq(str, start + 1, Len(str))

\* str.split('\n\n'): the pieces between the occurrences of the separator,
\* found from the left; piece is what has been read since the last one.
RECURSIVE SplitFrom(_, _, _)
SplitFrom(str, i, piece) ==
  IF i > Len(str) THEN <<piece>>
  ELSE IF i < Len(str) /\ SubSeq(str, i, i + 1) = "\n\n"
  THEN <<piece>> \o SplitFrom(str, i + 2, "")
  ELSE SplitFrom(str, i + 1, piece \o SubSeq(str, i, i))

Split(str) == SplitFrom(str, 1, "")

\* The jsonStr of the events of a list that start with 'data: '.
RECURSIVE DataOf(_)
DataOf(events) ==
  IF events = <<>> THEN <<>>
  ELSE (IF StartsWith(Head(events), "data: ")
        THEN <<Substring(Head(events), 6)>> ELSE <<>>) \o DataOf(Tail(events))

\* Events of a stream: status events, a comment line, an event of two lines.
EventTexts == {"data: A", "data: B", ": ping", "id: 1\ndata: A"}

\* Text after the last blank line: none, the start of an event, an event with
\* the first newline of its blank line.
TailTexts == {"", "data: C", "data: C\n"}

RECURSIVE Written(_)
Written(events) ==
  IF events = <<>> THEN "" ELSE Head(events) \o "\n\n" \o Written(Tail(events))

\* The text of the whole stream.
StreamText == Written(sentEvents) \o sentTail

InitStream ==
  /\ sentEvents \in UNION { [1..n -> EventTexts] : n \in 0..MaxTextEvents }
  /\ sentTail \in TailTexts
  /\ received = 0
  /\ buffer = ""
  /\ parsed = <<>>
  /\ readerDone = FALSE
  /\ cutBlankLine = FALSE

\* No process stream is read.
StreamIdle == InitStream /\ sentEvents = <<>> /\ sentTail = ""

\* A chunk that ends after n characters ends between the two newlines of the
\* blank line of an event.
EndsInsideBlankLine(n) ==
  \E k \in 1..Len(sentEvents) : Len(Written(SubSeq(sentEvents, 1, k))) = n + 1

\* One turn of the loop on a chunk of the next size characters, with the rest
\* of the buffer forgotten.
ReadTextForgetful(size) ==
  LET chunk == SubSeq(StreamText, received + 1, received + size)
      events == Split(buffer \o chunk)
  IN  /\ ~ readerDone
      /\ received + size <= Len(StreamText)
      /\ received' = received + size
      /\ buffer' = ""
      /\ parsed' = parsed \o DataOf(SubSeq(events, 1, Len(events) - 1))
      /\ cutBlankLine' = (cutBlankLine \/ EndsInsideBlankLine(received + size))
      /\ UNCHANGED <<sentEvents, sentTail, readerDone>>

\* One turn of the loop on a chunk of the next size characters: the buffer
\* grows by the chunk, is split at the blank lines, its last piece stays, and
\* the pieces before it are handled in order (JSON.parse gets their jsonStr).
ReadText(size) ==
  LET chunk == SubSeq(StreamText, received + 1, received + size)
      events == Split(buffer \o chunk)
  IN  /\ ~ readerDone
      /\ received + size <= Len(StreamText)
      /\ received' = received + size
      /\ buffer' = events[Len(events)]
      /\ parsed' = parsed \o DataOf(SubSeq(events, 1, Len(events) - 1))
      /\ cutBlankLine' = (cutBlankLine \/ EndsInsideBlankLine(received + size))
      /\ UNCHANGED <<sentEvents, sentTail, readerDone>>

\* reader.read() returns done after the last chunk: the loop ends.
ReadEnds ==
  /\ ~ readerDone
  /\ received = Len(StreamText)
  /\ readerDone' = TRUE
  /\ UNCHANGED <<sentEvents, sentTail, received, buffer, parsed, cutBlankLine>>

(***************************************************************************)
(* The specifications.                                                     *)
(***************************************************************************)
vars == <<transformVars, trackerVars, appVars, manageVars, panelVars, viewVars, streamVars>>

\* What the actions of one part leave alone.
outsideTransformer == <<trackerVars, appVars, manageVars, panelVars, viewVars, streamVars>>
outsideTracker == <<transformVars, appVars, manageVars, panelVars, viewVars, streamVars>>
outsideApp == <<transformVars, trackerVars, manageVars, panelVars, viewVars, streamVars>>
outsideManage == <<transformVars, trackerVars, panelVars, viewVars, streamVars>>
outsidePanel == <<transformVars, trackerVars, appVars, manageVars, viewVars, streamVars>>
outsideView == <<transformVars, trackerVars, appVars, manageVars, panelVars, streamVars>>

NextTransformer ==
  \/ CallTransform /\ UNCHANGED outsideTransformer
  \/ CallCalculateNodeSize /\ UNCHANGED outsideTransformer
  \/ CallGetNodeColor /\ UNCHANGED outsideTransformer

NextTracker ==
  \/ \E j \in JobIds : JobAccepted(j) /\ UNCHANGED outsideTracker
  \/ Tick /\ UNCHANGED outsideTracker
  \/ \E j \in JobIds : IntervalFires(j) /\ UNCHANGED outsideTracker
  \/ \E j \in JobIds : PollFails(j) /\ UNCHANGED outsideTracker
  \/ \E j \in JobIds, data \in PollAnswers :
       PollAnswered(j, data) /\ UNCHANGED outsideTracker
  \/ \E j \in JobIds : JobClosed(j) /\ UNCHANGED outsideTracker

NextApp ==
  \/ \E n \in Notes : StartProcess(n) /\ UNCHANGED outsideApp
  \/ ProcessFetchRejects /\ UNCHANGED outsideApp
  \/ \E detail \in ErrorDetails :
       ProcessNotOk(detail) /\ UNCHANGED outsideApp
  \/ ProcessOk /\ UNCHANGED outsideApp
  \/ \E chunk \in ChunkChoices : ReadChunk(chunk) /\ UNCHANGED outsideApp
  \/ ReadDone /\ UNCHANGED outsideApp
  \/ ReadRejects /\ UNCHANGED outsideApp
  \/ HandleEvent /\ UNCHANGED outsideApp
  \/ HandleComplete /\ UNCHANGED outsideApp
  \/ \E req \in requests : NotesAnswered(req) /\ UNCHANGED outsideApp
  \/ \E req \in requests : NotesFails(req) /\ UNCHANGED outsideApp
  \/ \E req \in requests : GraphAnswered(req) /\ UNCHANGED outsideApp
  \/ \E req \in requests : GraphFails(req) /\ UNCHANGED outsideApp
  \/ SecondPasses /\ UNCHANGED outsideApp
  \/ HideTimerFires /\ UNCHANGED outsideApp

NextAppCallback ==
  \/ \E n \in Notes : StartProcessCallback(n) /\ UNCHANGED outsideApp
  \/ ProcessFetchRejects /\ UNCHANGED outsideApp
  \/ \E detail \in ErrorDetails :
       ProcessNotOkCallback(detail) /\ UNCHANGED outsideApp
  \/ ProcessOk /\ UNCHANGED outsideApp
  \/ \E chunk \in ChunkChoices : ReadChunk(chunk) /\ UNCHANGED outsideApp
  \/ ReadDone /\ UNCHANGED outsideApp
  \/ ReadRejects /\ UNCHANGED outsideApp
  \/ HandleEvent /\ UNCHANGED outsideApp
  \/ HandleCompleteCallback /\ UNCHANGED outsideApp
  \/ \E req \in requests :
       /\ req.origin = "mount"
       /\ NotesAnswered(req) /\ UNCHANGED outsideApp
  \/ \E req \in requests : NotesAnsweredNoAutoLoad(req) /\ UNCHANGED outsideApp
  \/ \E req \in requests : NotesFails(req) /\ UNCHANGED outsideApp
  \/ \E req \in requests : GraphAnswered(req) /\ UNCHANGED outsideApp
  \/ \E req \in requests : GraphFails(req) /\ UNCHANGED outsideApp
  \/ SecondPasses /\ UNCHANGED outsideApp
  \/ HideTimerFires /\ UNCHANGED outsideApp

\* No transformer call is under way.
TransformerIdle ==
  /\ mode = "idle"
  /\ apiResponse = EmptyResponse
  /\ givenResponse = EmptyResponse
  /\ connectionCounts = EmptyMap
  /\ callResults = <<>>
  /\ sizeArg = 0
  /\ sizeResult = <<>>
  /\ colorArg = ""
  /\ colorResult = <<>>

\* The App without a job: no tracker is rendered.
InitAppOnly == InitApp /\ serverProcessed = {} /\ serverOrder = <<1, 2>>

\* Only the transformer functions are called.
InitTransformerCalls == InitTransformer /\ InitTracker /\ InitAppOnly /\ InitManage /\ InitPanel /\ ViewIdle /\ StreamIdle

SpecTransformer == InitTransformerCalls /\ [][NextTransformer]_vars

\* Only the job trackers run.
InitTrackerOnly == TransformerIdle /\ InitTracker /\ InitAppOnly /\ InitManage /\ InitPanel /\ ViewIdle /\ StreamIdle

SpecTracker == InitTrackerOnly /\ [][NextTracker]_vars

\* Timers fire and time passes; a request is answered or fails in the end.
TrackerFairness ==
  /\ WF_vars(Tick /\ UNCHANGED outsideTracker)
  /\ \A j \in JobIds :
       /\ WF_vars(IntervalFires(j) /\ UNCHANGED outsideTracker)
       /\ WF_vars((PollFails(j) \/ \E data \in PollAnswers : PollAnswered(j, data))
                    /\ UNCHANGED outsideTracker)

SpecTrackerFair == SpecTracker /\ TrackerFairness

\* Only App runs: it mounts against any server state.
InitAppRuns == TransformerIdle /\ InitTracker /\ InitApp /\ InitManage /\ InitPanel /\ ViewIdle /\ StreamIdle

SpecApp == InitAppRuns /\ [][NextApp]_vars

\* What goes on by itself once the user has pressed the process button: the
\* server answers and ends its stream, requests settle, the handler's steps
\* run, time passes and the timer fires.
AppGoesOn ==
  \/ ProcessFetchRejects
  \/ \E detail \in ErrorDetails : ProcessNotOk(detail)
  \/ ProcessOk
  \/ \E chunk \in ChunkChoices : ReadChunk(chunk)
  \/ ReadDone
  \/ ReadRejects
  \/ HandleEvent
  \/ HandleComplete
  \/ \E req \in requests : NotesAnswered(req) \/ NotesFails(req)
  \/ \E req \in requests : GraphAnswered(req) \/ GraphFails(req)
  \/ SecondPasses
  \/ HideTimerFires

AppFairness == WF_vars(AppGoesOn /\ UNCHANGED outsideApp)

SpecAppFair == SpecApp /\ AppFairness

\* The notes list of App.tsx: viewing and deleting notes.
NextDelete ==
  \/ \E n \in Notes : NoteClick(n) /\ UNCHANGED outsideManage
  \/ \E n \in Notes : handleDeleteClick(n) /\ UNCHANGED outsideManage
  \/ handleDeleteCancel /\ UNCHANGED outsideManage
  \/ handleDeleteConfirm /\ UNCHANGED outsideManage
  \/ DeleteAnswered /\ UNCHANGED outsideManage
  \/ \E message \in DeleteFailureMessages : DeleteFails(message) /\ UNCHANGED outsideManage
  \/ \E req \in requests : DeleteNotesAnswered(req) /\ UNCHANGED outsideManage
  \/ \E req \in requests : DeleteNotesFails(req) /\ UNCHANGED outsideManage
  \/ \E req \in requests :
       /\ req.origin = "mount"
       /\ NotesAnswered(req) /\ UNCHANGED outsideApp
  \/ \E req \in requests :
       /\ req.origin = "mount"
       /\ NotesFails(req) /\ UNCHANGED outsideApp
  \/ \E req \in requests : GraphOfHeldNoteAnswered(req) /\ UNCHANGED outsideApp
  \/ \E req \in requests : GraphFails(req) /\ UNCHANGED outsideApp

SpecDelete == InitAppRuns /\ [][NextDelete]_vars

\* The upload panel of App.tsx with the notes list.
NextUpload ==
  \/ \E file \in FileNames : handleFileUpload(file) /\ UNCHANGED outsideManage
  \/ \E atFront \in BOOLEAN : UploadAnswered(atFront) /\ UNCHANGED outsideManage
  \/ \E message \in UploadFailureMessages : UploadFails(message) /\ UNCHANGED outsideManage
  \/ \E req \in requests : UploadNotesAnswered(req) /\ UNCHANGED outsideManage
  \/ \E req \in requests : UploadNotesFails(req) /\ UNCHANGED outsideManage
  \/ \E n \in Notes : NoteClick(n) /\ UNCHANGED outsideManage
  \/ \E req \in requests :
       /\ req.origin = "mount"
       /\ NotesAnswered(req) /\ UNCHANGED outsideApp
  \/ \E req \in requests :
       /\ req.origin = "mount"
       /\ NotesFails(req) /\ UNCHANGED outsideApp
  \/ \E req \in requests : GraphOfHeldNoteAnswered(req) /\ UNCHANGED outsideApp
  \/ \E req \in requests : GraphFails(req) /\ UNCHANGED outsideApp

SpecUpload == InitAppRuns /\ [][NextUpload]_vars

\* The upload panel alone: drags, drops and selections.
NextPanel ==
  \/ handleDragOver /\ UNCHANGED outsidePanel
  \/ handleDragLeave /\ UNCHANGED outsidePanel
  \/ \E files \in FileLists : handleDrop(files) /\ UNCHANGED outsidePanel
  \/ \E files \in FileLists : handleFileSelect(files) /\ UNCHANGED outsidePanel

InitPanelOnly == TransformerIdle /\ InitTracker /\ InitAppOnly /\ InitManage /\ InitPanel /\ ViewIdle /\ StreamIdle

SpecPanel == InitPanelOnly /\ [][NextPanel]_vars

\* The later App (useCallback handlers) runs.
SpecAppCallback == InitAppRuns /\ [][NextAppCallback]_vars

\* The later App with its search box and filter controls.
NextView ==
  \/ \E text \in QueryTexts : SetQuery(text) /\ UNCHANGED outsideView
  \/ handleSubmit /\ UNCHANGED outsideView
  \/ handleClear /\ UNCHANGED outsideView
  \/ \E results \in ResultLists : SearchAnswered(results) /\ UNCHANGED outsideView
  \/ SearchFails /\ UNCHANGED outsideView
  \/ \E i \in 1..Len(Displayed.nodes) : NodeClick(i) /\ UNCHANGED outsideView
  \/ \E k \in 1..Len(AvailableTypes) :
       handleTypeToggle(AvailableTypes[k]) /\ UNCHANGED outsideView
  \/ \E value \in StrengthChoices : handleStrengthChange(value) /\ UNCHANGED outsideView
  \/ handleReset /\ UNCHANGED outsideView

InitViewOnly ==
  TransformerIdle /\ InitTracker /\ InitAppOnly /\ InitManage /\ InitPanel /\ InitView /\ StreamIdle

SpecView == InitViewOnly /\ [][NextView]_vars

\* The filter controls of App.tsx.
NextViewLogs ==
  \/ \E k \in 1..Len(AvailableTypes) :
       handleTypeToggle(AvailableTypes[k]) /\ UNCHANGED outsideView
  \/ \E value \in StrengthChoices : handleStrengthChange(value) /\ UNCHANGED outsideView
  \/ handleReset /\ UNCHANGED outsideView

InitViewLogsOnly ==
  TransformerIdle /\ InitTracker /\ InitAppOnly /\ InitManage /\ InitPanel /\ InitViewLogs /\ StreamIdle

SpecViewLogs == InitViewLogsOnly /\ [][NextViewLogs]_vars

outsideStream == <<transformVars, trackerVars, appVars, manageVars, panelVars, viewVars>>

\* The reader loop of handleProcessNote on the text of a stream, cut into
\* chunks anywhere.
NextStream ==
  \/ \E size \in 1..(Len(StreamText) - received) : ReadText(size) /\ UNCHANGED outsideStream
  \/ ReadEnds /\ UNCHANGED outsideStream

InitStreamOnly ==
  TransformerIdle /\ InitTracker /\ InitAppOnly /\ InitManage /\ InitPanel /\ ViewIdle
    /\ InitStream

SpecStream == InitStreamOnly /\ [][NextStream]_vars

(***************************************************************************)
(* Claims about the graph transformer, under SpecTransformer.              *)
(***************************************************************************)

\* C1: for every integer n, calculateNodeSize(n) is 8 when n < 0 and
\* min(24, 8 + 2n) when n >= 0, so it always lies in [8, 24].
C1_NodeSizeFormula ==
  sizeResult # <<>> =>
    /\ sizeResult[1] = (IF sizeArg < 0 THEN 8
                        ELSE IF 8 + 2 * sizeArg < 24 THEN 8 + 2 * sizeArg ELSE 24)
    /\ sizeResult[1] >= 8
    /\ sizeResult[1] <= 24

\* A negative count was clamped to the minimum.
C1_Witness == mode = "size" /\ sizeArg < 0 /\ sizeResult = <<8>>

\* The relationships of a response that are incident to entity id e, each
\* one once (by its position in the list).
IncidentRels(resp, e) ==
  { j \in 1..Len(resp.relationships) :
      \/ resp.relationships[j].source_entity_id = e
      \/ resp.relationships[j].target_entity_id = e }

\* C2: the node of every entity e has size calculateNodeSize(k), k the number
\* of relationships incident to e, each counted once.
C2_SizeCountsEachRelationshipOnce ==
  \A c \in 1..Len(callResults) :
    \A i \in 1..Len(givenResponse.entities) :
      callResults[c].nodes[i].size =
        calculateNodeSize(Cardinality(IncidentRels(givenResponse, givenResponse.entities[i].id)))

\* C3: getNodeColor returns the table colour for the six entity types and the
\* default #9CA3AF for every other type string.
C3_TableColourOrDefault ==
  colorResult # <<>> =>
    colorResult[1] =
      CASE colorArg = "concept" -> Str("#FF70A6")
        [] colorArg = "technology" -> Str("#FF9770")
        [] colorArg = "idea" -> Str("#FFD670")
        [] colorArg = "person" -> Str("#70E0FF")
        [] colorArg = "technique" -> Str("#A770FF")
        [] colorArg = "architecture" -> Str("#70FFB9")
        [] OTHER -> Str("#9CA3AF")

\* C4: one link per relationship, in the same order, source and target the
\* decimal strings of the endpoint ids, type, strength and explanation unchanged.
C4_LinksPassThrough ==
  \A c \in 1..Len(callResults) :
    /\ Len(callResults[c].links) = Len(givenResponse.relationships)
    /\ \A j \in 1..Len(givenResponse.relationships) :
         LET rel == givenResponse.relationships[j]
             link == callResults[c].links[j]
         IN  /\ link.source = ToString(rel.source_entity_id)
             /\ link.target = ToString(rel.target_entity_id)
             /\ link.relationshipType = rel.relationship_type
             /\ link.strength = rel.strength
             /\ link.explanation = rel.ai_explanation

\* Two links of different type came out in the order of their relationships,
\* the first one naming an endpoint that is no entity of the response.
C4_Witness ==
  /\ Len(callResults) >= 1
  /\ Len(callResults[1].links) = 2
  /\ callResults[1].links[1].relationshipType = "prerequisite"
  /\ callResults[1].links[1].source = "3"
  /\ callResults[1].links[1].target = "1"
  /\ callResults[1].links[2].relationshipType = "related_to"

\* An entity carries a colour when its color is a non-empty string (absent,
\* null and the empty string are no colour).
CarriesColor(entity) == entity.color.t = "string" /\ entity.color.v # ""

\* C5: the node colour is the entity's own colour when it carries one, and
\* getNodeColor(entity_type) when it carries none.
C5_OwnColourOrTypeColour ==
  \A c \in 1..Len(callResults) :
    \A i \in 1..Len(givenResponse.entities) :
      LET entity == givenResponse.entities[i]
          node == callResults[c].nodes[i]
      IN  /\ CarriesColor(entity) => node.color = entity.color
          /\ ~CarriesColor(entity) => node.color = getNodeColor(entity.entity_type)

\* One response with an entity that has its own colour and one whose color is
\* the empty string, which got the default colour of its unknown type.
C5_Witness ==
  /\ Len(callResults) >= 1
  /\ Len(callResults[1].nodes) = 2
  /\ givenResponse.entities[1].color = Str("#123456")
  /\ callResults[1].nodes[1].color = Str("#123456")
  /\ givenResponse.entities[2].color = Str("")
  /\ callResults[1].nodes[2].color = Str(DEFAULT_COLOR)

Polling(j) == isMounted[j] /\ ~terminalSeen[j]

Closed(j) ==
  /\ j \in startedJobs
  /\ ~isMounted[j]
  /\ \A i \in 1..Len(activeJobs) : activeJobs[i] # j

\* C8: once the tracker of a job is closed no status request is sent for the
\* job, and no answer changes the tracker's state or calls onComplete.
C8_NothingAfterClose ==
  [][\A j \in JobIds :
       (j \in startedJobs /\ ~isMounted[j]) =>
         /\ Closed(j)
         /\ pollParity'[j] = pollParity[j]
         /\ inFlight'[j] <= inFlight[j]
         /\ ~intervalActive'[j]
         /\ progressData'[j] = progressData[j]
         /\ trackerError'[j] = trackerError[j]
         /\ hasCompleted'[j] = hasCompleted[j]
         /\ onCompleteCalls'[j] = onCompleteCalls[j]]_vars

\* An answer 'completed' that was in flight when the tracker was closed has
\* arrived, and onComplete was never called.
C8_Witness ==
  \E j \in JobIds :
    /\ Closed(j)
    /\ droppedAfterClose[j] = "completed"
    /\ onCompleteCalls[j] = <<>>
    /\ progressData[j].status # "completed"

(***************************************************************************)
(* Claims about handleProcessNote, under SpecApp.                          *)
(***************************************************************************)

\* C9: when an event of stage 'error' has been handled, the banner shows the
\* event's message and processingNoteId and processingStatus are null.
C9_ErrorEventClosesDisplay ==
  justHandled.stage = "error" =>
    /\ error = Str(justHandled.message)
    /\ processingNoteId = 0
    /\ processingStatus = NoStatus

\* Every request started by handling the 'complete' event has been answered.
CompleteRequestsReturned ==
  /\ completeNote # 0
  /\ pc \notin {"awaitLoadFirstNote", "awaitLoadGraph"}
  /\ \A req \in requests : req.origin # "complete"

\* C10: once all requests started by handling the 'complete' event of note n
\* have returned (nothing else was in flight and none of them failed),
\* graphData is the graph of n and currentNoteId is n.
C10_SwitchesToProcessedNote ==
  (CompleteRequestsReturned /\ completeClean /\ ~completeFailed) =>
    /\ graphData = completeNote
    /\ currentNoteId = completeNote

\* C11: when POST /api/notes/{id}/process is answered with a non-2xx status
\* whose body carries a detail message, the banner shows that message
\* verbatim, no stream is read, and processingNoteId and processingStatus are
\* null again.
C11_NotOkDetailShownVerbatim ==
  (justHandled.kind = "notOk" /\ justHandled.stage = "detail") =>
    /\ error = Str(justHandled.message)
    /\ processingNoteId = 0
    /\ processingStatus = NoStatus
    /\ streamEvents = 0
    /\ pc = "done"

\* C20: every run of handleProcessNote eventually returns the UI to idle:
\* once processingNoteId is set, a state follows in which processingNoteId and
\* processingStatus are both null, whether the stream delivered 'complete',
\* 'error', or ended without either, or the request failed.
C20_ProcessingEndsIdle ==
  (processingNoteId # 0) ~> (processingNoteId = 0 /\ processingStatus = NoStatus)

(***************************************************************************)
(* Claims about deleting and uploading, under SpecDelete and SpecUpload.   *)
(***************************************************************************)

\* C12: after the DELETE request for the viewed note n has succeeded, the UI
\* settles (the handler has returned, no request is in flight) with an empty
\* graph and currentNoteId = null, however the notes refresh and the graph
\* load it starts interleave with the clearing step.
C12_DeletedViewedNoteLeavesEmptyGraph ==
  (deletedViewed # 0 /\ deleteClean /\ pcDelete = "idle" /\ requests = {}) =>
    /\ graphData = 0
    /\ currentNoteId = 0

\* C13: a DELETE request for a note is sent only by confirming a modal that
\* is open for that note, and a modal opens only by the delete button;
\* cancelling, or confirming while no modal is open, sends no request and
\* changes nothing but closing the modal.
C13_DeleteOnlyAfterConfirm ==
  [][/\ deleteSent' # deleteSent =>
          /\ showDeleteConfirm # 0
          /\ justHandled' = UserAction("deleteConfirm", "open")
          /\ deleteSent' = Append(deleteSent, showDeleteConfirm)
     /\ (showDeleteConfirm' # showDeleteConfirm /\ showDeleteConfirm' # 0) =>
          justHandled' = UserAction("deleteClick", "")
     /\ (\/ justHandled' = UserAction("deleteCancel", "")
         \/ justHandled'.kind = "deleteConfirm" /\ showDeleteConfirm = 0) =>
          /\ showDeleteConfirm' = 0
          /\ deleteSent' = deleteSent
          /\ UNCHANGED <<graphData, currentNoteId, error, allNotes, requests,
                         serverProcessed, serverOrder, isProcessing, deletingNoteId,
                         pcDelete, deleteNoteId>>]_vars

\* A second DELETE request has just been sent by confirming an open modal.
C13_Witness ==
  /\ justHandled = UserAction("deleteConfirm", "open")
  /\ Len(deleteSent) = 2
  /\ pcDelete = "awaitDelete"
  /\ showDeleteConfirm = 0

\* C14: after an upload the server accepted (and a notes refresh it answered),
\* when handleFileUpload has finished the banner shows the success message
\* naming the uploaded file and isProcessing is false.
C14_UploadSuccessShown ==
  justHandled = UserAction("uploadDone", "accepted") =>
    /\ error = Str(UploadSuccessMessage(uploadFile, uploadedNoteId))
    /\ isProcessing = FALSE

(***************************************************************************)
(* Claims about UploadPanel, under SpecPanel.                              *)
(***************************************************************************)
TxtOrMd(file) ==
  \/ file.type = "text/plain"
  \/ \E stem \in {"notes", "ideas", "README", "paper"} :
       file.name \in {stem \o ".txt", stem \o ".md"}

\* C15: on the drop path and on the picker path alike, onFileUpload is called
\* only with a file whose type is text/plain or whose name ends in .txt or
\* .md; a drop or selection without such a file starts no upload.
C15_OnlyTxtOrMdUploaded ==
  \A i \in 1..Len(uploadCalls) : TxtOrMd(uploadCalls[i])

\* The decimal strings of the entity ids the latest search answer lists.
ListedIds == {String(lastOp.results[i].v) : i \in 1..Len(lastOp.results)}

\* The nodes of the current graph whose entity is listed, and the links of the
\* current graph between them.
KeptNodes ==
  Filter(loadedGraph.nodes,
         [i \in 1..Len(loadedGraph.nodes) |-> loadedGraph.nodes[i].id \in ListedIds])

KeptLinks ==
  Filter(loadedGraph.links,
         [i \in 1..Len(loadedGraph.links) |->
            /\ \E k \in 1..Len(KeptNodes) : KeptNodes[k].id = loadedGraph.links[i].source
            /\ \E k \in 1..Len(KeptNodes) : KeptNodes[k].id = loadedGraph.links[i].target])

\* C16: after a search whose answer lists entities of the current note, the
\* displayed graph is the current graph restricted to the listed entities'
\* nodes and the links between them, and the first kept node is selected.
C16_SearchRestrictsGraph ==
  (lastOp.op = "searchAnswered" /\ Len(KeptNodes) > 0) =>
    /\ Displayed.nodes = KeptNodes
    /\ Displayed.links = KeptLinks
    /\ selectedNode = <<KeptNodes[1]>>

\* The filter controls are as they start: every type checked, the slider at 0.
FiltersAtRest == Len(selectedTypes) = Len(AvailableTypes) /\ minStrength = 0

\* C17: when the search box has been cleared and the empty query is submitted,
\* the search filter is gone and the full graph of the note is displayed.
C17_EmptySubmitRemovesFilter ==
  (lastOp.op = "submitEmpty" /\ searchesInFlight = 0 /\ FiltersAtRest) =>
    /\ filteredGraphData = <<>>
    /\ Displayed = loadedGraph

\* The nodes of the current graph whose type is checked, and the links of the
\* current graph between them that are at least as strong as the slider says.
TypedNodes ==
  Filter(loadedGraph.nodes,
         [i \in 1..Len(loadedGraph.nodes) |->
            \E k \in 1..Len(selectedTypes) : selectedTypes[k] = loadedGraph.nodes[i].type])

StrongLinks ==
  Filter(loadedGraph.links,
         [i \in 1..Len(loadedGraph.links) |->
            /\ \E k \in 1..Len(TypedNodes) : TypedNodes[k].id = loadedGraph.links[i].source
            /\ \E k \in 1..Len(TypedNodes) : TypedNodes[k].id = loadedGraph.links[i].target
            /\ loadedGraph.links[i].strength >= minStrength])

\* C18: after a change of the filter controls the displayed graph is the
\* nodes of the checked types with the links between displayed nodes of
\* strength at least minStrength; with every type checked and minStrength 0
\* it is the whole current graph.
C18_FiltersDecideGraph ==
  lastOp.op = "filterChange" =>
    IF FiltersAtRest
    THEN Displayed = loadedGraph
    ELSE Displayed.nodes = TypedNodes /\ Displayed.links = StrongLinks

\* The number of events whose blank line lies within the first n characters
\* of the stream.
WhollyWithin(n) ==
  IF \E k \in 1..Len(sentEvents) : Len(Written(SubSeq(sentEvents, 1, k))) <= n
  THEN CHOOSE k \in 1..Len(sentEvents) :
         /\ Len(Written(SubSeq(sentEvents, 1, k))) <= n
         /\ \A j \in 1..Len(sentEvents) : Len(Written(SubSeq(sentEvents, 1, j))) <= n => j <= k
  ELSE 0

\* C19: however the stream is cut into chunks, the 'data: ' events handled
\* are those of the events received with their blank line, each once and in
\* stream order, and the text after the last blank line received is in the
\* buffer; at the end of the stream these are the 'data: ' events of the whole
\* stream, and what follows the last blank line has not been handled.
C19_EventsIndependentOfChunks ==
  /\ parsed = DataOf(SubSeq(sentEvents, 1, WhollyWithin(received)))
  /\ buffer = SubSeq(StreamText,
                     Len(Written(SubSeq(sentEvents, 1, WhollyWithin(received)))) + 1,
                     received)
  /\ readerDone => (parsed = DataOf(sentEvents) /\ buffer = sentTail)

\* The stream of two 'data: ' events has been read to its end, one chunk having
\* ended inside a blank line, with text left after the last blank line.
C19_Witness ==
  /\ readerDone
  /\ cutBlankLine
  /\ Len(parsed) = 2
  /\ buffer = "data: C"

=============================================================================
